---- MODULE Spec2Model ----
(***************************************************************************)
(* DebateIQ: the debate session state machine (turn orchestrator) and the  *)
(* React client that drives it (setup form, App, DebateArena).             *)
(*                                                                         *)
(* The orchestrator itself is the Python backend of the repository; its    *)
(* operations are modelled from section 4.1 of the specification.  The     *)
(* client is modelled from the TypeScript sources.                         *)
(*                                                                         *)
(* The specifications share the variables:                                 *)
(*   SpecBackend  the session table under arbitrary API calls              *)
(*   Spec         the turn handlers of one DebateArena (text, voice, next) *)
(*   SpecFigures  the arena on a figure-vs-figure session, with its judge  *)
(*   SpecJudge    the arena with its judge evaluations, without microphone *)
(*   SpecSetup    the setup form, App.handleStartDebate and create_session *)
(*   SpecStream   start_streaming observed by the SSE and WebSocket clients *)
(*   SpecTransports  the two clients fed the same arbitrary frames          *)
(*   SpecCustom   the CreateCustomFigure form, App and create_custom        *)
(* The timers the turn handlers set are run in SpecFigures and SpecJudge;  *)
(* they read the message list and write only the evaluation state.         *)
(***************************************************************************)
EXTENDS Integers, Sequences, FiniteSets, TLC

VARIABLES
    \* ---- backend (session table, persona registry) ----
    sessions,        \* session id -> DebateSession
    nextId,          \* next session id to allocate
    customPersonas,  \* ids of the custom personas currently stored
    lastCall,        \* the last backend call and its outcome
    evals,           \* session id -> the evaluations recorded for the session
    \* ---- DebateArena component state ----
    messages, userTurnCount, currentTurn, maxTurns,
    isSendingMessage, isGeneratingTurn, isRecording,
    userInput, error,
    micPending,      \* pending getUserMedia promises (render closures)
    recorder,        \* mediaRecorderRef.current (the closure its onstop holds)
    net,             \* turn-advance requests / responses in flight
    arenaAdvances,   \* successful turn-advance responses the arena handled
    latestEvaluation, cumulativeScores, isEvaluating, showGameOver,
    timers,          \* pending setTimeout callbacks, in the order they were set
    evalNet,         \* evaluateExchange / getCumulativeScores calls in flight
    evalLog,         \* the evaluateExchange calls the arena has made
    \* ---- App and DebateSetup ----
    currentView, debateConfig, creatingDebate, appError,
    figures,         \* the figure ids App fetched from the backend
    topic, selectedFigures, setupMaxTurns, debateMode, setupVariant,
    createNet,       \* createDebate requests / responses in flight
    submitted,       \* createDebate requests App has issued
    \* ---- live updates (ApiService.streamDebate / connectDebateWebSocket) ----
    channel,         \* session id -> the events its stream has emitted
    sse,             \* the EventSource client: state, events handled, callbacks
    ws,              \* the WebSocket client: state, events handled, callbacks
    \* ---- CreateCustomFigure ----
    figureName, cfTopic, isCreating, cfError, cfSuccess,
    customNet,       \* createCustomFigure / getFigures requests in flight
    cfTimers,        \* pending setTimeout(onFigureCreated) callbacks
    cfLog            \* outcomes handled, and the onFigureCreated calls made

backendVars == <<sessions, nextId, customPersonas, lastCall, evals>>
judgeVars   == <<latestEvaluation, cumulativeScores, isEvaluating,
                 showGameOver, timers, evalNet, evalLog>>
arenaVars   == <<messages, userTurnCount, currentTurn, maxTurns,
                 isSendingMessage, isGeneratingTurn, isRecording,
                 userInput, error, micPending, recorder, net, arenaAdvances,
                 judgeVars>>
setupVars   == <<currentView, debateConfig, creatingDebate, appError,
                 figures, topic, selectedFigures, setupMaxTurns, debateMode,
                 setupVariant, createNet, submitted>>
streamVars  == <<channel, sse, ws>>
customVars  == <<figureName, cfTopic, isCreating, cfError, cfSuccess,
                 customNet, cfTimers, cfLog>>
vars == <<backendVars, arenaVars, setupVars, streamVars, customVars>>

-----------------------------------------------------------------------------
(* Bounds of the model *)

MaxSessions == 1      \* session ids the table may allocate (SpecBackend)
MaxApiTurns == 2      \* largest max_turns a direct API client asks for
MaxInFlight == 2      \* turn-advance requests the network holds at once
MaxPendingMic == 1    \* getUserMedia promises pending at once
MaxUserOption == 4    \* longest user-vs-figure debate length modelled
MaxCreates == 1       \* createDebate requests App issues in one run
MaxEvalInFlight == 1  \* evaluations the arena has in flight at once
MaxFigureOption == 6  \* longest figure-vs-figure debate length modelled
MaxStreamTurns == 2   \* largest max_turns of a streamed session (SpecStream)
MaxEvents == 3        \* frames an arbitrary server sends (SpecTransports)
MaxCustomCreates == 2 \* createCustomFigure calls the form makes in one run

-----------------------------------------------------------------------------
(* Program constants *)

MAX_USER_TURNS == 4

\* useState(6) of the setup form's maxTurns
DefaultMaxTurns == 6

\* The options of the "Debate Length" select.
TurnOptions == {2, 3, 4, 6, 8, 10}

USER_VS_FIGURE   == "user-vs-figure"
FIGURE_VS_FIGURE == "figure-vs-figure"
DebateMode == {USER_VS_FIGURE, FIGURE_VS_FIGURE}

\* Built-in personas (two of them), and the one custom persona a user may store.
BuiltinFigures == {"lincoln", "tesla"}
CustomFigures  == {"curie"}
UnknownId      == "nobody"

\* Strings are sequences of characters; S is a space.
S == " "
A == "a"
Strings == {<<>>, <<S>>, <<S, A>>}

RECURSIVE TrimLeft(_)
TrimLeft(s) == IF s # <<>> /\ Head(s) = S THEN TrimLeft(Tail(s)) ELSE s

RECURSIVE TrimRight(_)
TrimRight(s) ==
    IF s # <<>> /\ s[Len(s)] = S THEN TrimRight(SubSeq(s, 1, Len(s) - 1)) ELSE s

\* String.prototype.trim
Trim(s) == TrimRight(TrimLeft(s))

NoCall == [op |-> "none", sid |-> 0, outcome |-> "none",
           preStatus |-> "none", appended |-> 0]

-----------------------------------------------------------------------------
(* Backend: the turn orchestrator (specification section 4.1) *)

Personas == BuiltinFigures \cup customPersonas

\* resolve(persona_id)
resolve(id, known) == id \in known

\* participant count the mode requires
RequiredParticipants(mode) == IF mode = USER_VS_FIGURE THEN 1 ELSE 2

\* the number of turn-advances a session runs for: the configured max
\* multiplied by the participant count
TurnLimit(s) == s.max_turns * Len(s.participants)

\* the display name the registry holds for a persona id ("You" and
\* "Moderator" for the two speakers that are not personas)
PersonaName(id) ==
    CASE id = "lincoln"   -> "Abraham Lincoln"
      [] id = "tesla"     -> "Nikola Tesla"
      [] id = "curie"     -> "Marie Curie"
      [] id = "moderator" -> "Moderator"
      [] OTHER            -> "You"

\* a Message that leaves the speaker's name to a later registry lookup
Message_NoName(speaker, role, n) ==
    [speaker_id |-> speaker, speaker_name |-> "", role |-> role,
     turn_number |-> n, content |-> n]

\* a Message carries its speaker's id and name as they were when it was made
Message(speaker, role, n) ==
    [speaker_id |-> speaker, speaker_name |-> PersonaName(speaker),
     role |-> role, turn_number |-> n, content |-> n]

NewSession(t, pids, mt, mode) ==
    [topic |-> t, mode |-> mode, participants |-> pids, status |-> "waiting",
     current_turn |-> 0, max_turns |-> mt, messages |-> <<>>,
     opening |-> 0, stream |-> "none"]

\* create_session: validation
create_session_outcome(t, pids, mode, known) ==
    IF \/ t = <<>>
       \/ Len(pids) # RequiredParticipants(mode)
       \/ \E i \in 1..Len(pids) : ~resolve(pids[i], known)
    THEN "ValidationError"
    ELSE "ok"

\* StatusAfter completing one turn late
StatusAfter_Late(s, t) == IF t > TurnLimit(s) THEN "completed" ELSE "active"

\* the status after the turn counter reached t
StatusAfter(s, t) == IF t >= TurnLimit(s) THEN "completed" ELSE "active"

\* advance_turn_user that does not test for a completed session
advance_turn_user_NoCheck(s, agentOk) ==
    IF ~agentOk
    THEN [session |-> s, outcome |-> "UpstreamAgentError", new |-> <<>>]
    ELSE LET n  == Len(s.messages)
             um == Message("user", "user", n + 1)
             am == Message(s.participants[1], "participant", n + 2)
             t  == s.current_turn + 1
         IN [session |-> [s EXCEPT !.messages = @ \o <<um, am>>,
                                   !.current_turn = t,
                                   !.status = StatusAfter(s, t)],
             outcome |-> "ok", new |-> <<um, am>>]

\* advance_turn_user: the user message and the persona's counter-argument
advance_turn_user(s, agentOk) ==
    IF s.status = "completed"
    THEN [session |-> s, outcome |-> "SessionCompleted", new |-> <<>>]
    ELSE IF ~agentOk
    THEN [session |-> s, outcome |-> "UpstreamAgentError", new |-> <<>>]
    ELSE LET n  == Len(s.messages)
             um == Message("user", "user", n + 1)
             am == Message(s.participants[1], "participant", n + 2)
             t  == s.current_turn + 1
         IN [session |-> [s EXCEPT !.messages = @ \o <<um, am>>,
                                   !.current_turn = t,
                                   !.status = StatusAfter(s, t)],
             outcome |-> "ok", new |-> <<um, am>>]

\* next speaker of a persona-vs-persona session: participants[turn % 2]
NextSpeaker(s) == s.participants[(s.current_turn % 2) + 1]

\* advance_turn_auto: one utterance of the next speaker
advance_turn_auto(s, agentOk) ==
    IF s.status = "completed"
    THEN [session |-> s, outcome |-> "SessionCompleted", new |-> <<>>]
    ELSE IF ~agentOk
    THEN [session |-> s, outcome |-> "UpstreamAgentError", new |-> <<>>]
    ELSE LET n == Len(s.messages)
             m == Message(NextSpeaker(s), "participant", n + 1)
             t == s.current_turn + 1
         IN [session |-> [s EXCEPT !.messages = @ \o <<m>>,
                                   !.current_turn = t,
                                   !.status = StatusAfter(s, t)],
             outcome |-> "ok", new |-> <<m>>]

advance_turn(s, agentOk) ==
    IF s.mode = USER_VS_FIGURE THEN advance_turn_user(s, agentOk)
    ELSE advance_turn_auto(s, agentOk)

AdvanceOp(s) ==
    IF s.mode = USER_VS_FIGURE THEN "advance_turn_user" ELSE "advance_turn_auto"

-----------------------------------------------------------------------------
(* Backend operations as API calls (SpecBackend) *)

SessionIds == 1..MaxSessions
\* participant lists an API client sends: empty, one, two or three ids, known
\* or unknown
ApiParticipantLists ==
    { <<>>, <<"lincoln">>, <<"curie">>, <<UnknownId>>,
      <<"lincoln", "curie">>, <<"lincoln", UnknownId>>,
      <<"lincoln", "curie", "lincoln">> }

ApiTopics == {<<>>, <<A>>}

Call(op, sid, outcome, pre, n) ==
    [op |-> op, sid |-> sid, outcome |-> outcome, preStatus |-> pre,
     appended |-> n]

\* ---- events of the live-update channel (StreamedDebateMessage) ----
\* parses: the frame is valid JSON; message: the Message of a debate_message
\* event; text: the message text of a status or error event, when present
StreamEvent(type, message, text) ==
    [parses |-> TRUE, type |-> type, message |-> message, text |-> text]

MessageEvent(m) == StreamEvent("debate_message", <<m>>, <<>>)
CompleteEvent   == StreamEvent("complete", <<>>, <<"Debate completed">>)
ErrorEvent      == StreamEvent("error", <<>>, <<"agent error">>)
IsTerminal(e)   == e.parses /\ e.type \in {"complete", "error"}

EventsOf(sid) == IF sid \in DOMAIN channel THEN channel[sid] ELSE <<>>
Emit(sid, es) == (sid :> (EventsOf(sid) \o es)) @@ channel

\* a client of the live-update channel before it connects
ClientIdle == [state |-> "idle", next |-> 0, callbacks |-> <<>>]
StreamIdle == channel = <<>> /\ sse = ClientIdle /\ ws = ClientIdle

\* CreateCustomFigure before it is mounted
CustomIdle ==
    /\ figureName = <<>> /\ cfTopic = <<>>
    /\ isCreating = FALSE /\ cfError = FALSE /\ cfSuccess = FALSE
    /\ customNet = <<>> /\ cfTimers = 0 /\ cfLog = <<>>

ArenaIdle ==
    /\ messages = <<>> /\ userTurnCount = 0 /\ currentTurn = 0
    /\ maxTurns = MAX_USER_TURNS
    /\ isSendingMessage = FALSE /\ isGeneratingTurn = FALSE
    /\ isRecording = FALSE /\ userInput = <<>> /\ error = FALSE
    /\ latestEvaluation = <<>> /\ cumulativeScores = <<>>
    /\ isEvaluating = FALSE /\ showGameOver = FALSE
    /\ timers = <<>> /\ evalNet = <<>> /\ evalLog = <<>>
    /\ micPending = {} /\ recorder = <<>> /\ net = <<>>
    /\ arenaAdvances = 0

SetupIdle ==
    /\ currentView = "selection" /\ debateConfig = <<>>
    /\ creatingDebate = FALSE /\ appError = FALSE
    /\ figures = BuiltinFigures
    /\ topic = <<>> /\ selectedFigures = <<>> /\ setupMaxTurns = DefaultMaxTurns
    /\ debateMode = USER_VS_FIGURE /\ setupVariant = "modes"
    /\ createNet = <<>> /\ submitted = 0

InitBackend ==
    /\ sessions = <<>>
    /\ nextId = 1
    /\ customPersonas = {}
    /\ lastCall = NoCall
    /\ evals = <<>>
    /\ ArenaIdle
    /\ StreamIdle
    /\ CustomIdle
    /\ SetupIdle

\* POST /debates
ApiCreateSession ==
    \E t \in ApiTopics, pids \in ApiParticipantLists, mode \in DebateMode :
        IF create_session_outcome(t, pids, mode, Personas) = "ok"
        THEN \E mt \in 1..MaxApiTurns :
                /\ nextId <= MaxSessions
                /\ sessions' = (nextId :> NewSession(t, pids, mt, mode)) @@ sessions
                /\ nextId' = nextId + 1
                /\ lastCall' = Call("create_session", nextId, "ok", "none", 0)
                /\ UNCHANGED <<customPersonas, evals, arenaVars, setupVars, customVars, streamVars>>
        ELSE /\ lastCall' = Call("create_session", 0, "ValidationError", "none", 0)
             /\ UNCHANGED <<sessions, nextId, customPersonas, evals, arenaVars, setupVars, customVars, streamVars>>

\* POST /debates/{id}/message and POST /debates/{id}/next
ApiAdvanceTurn ==
    \E sid \in SessionIds, agentOk \in BOOLEAN :
        /\ IF sid \in DOMAIN sessions
           THEN LET r == advance_turn(sessions[sid], agentOk) IN
                /\ sessions' = [sessions EXCEPT ![sid] = r.session]
                /\ lastCall' = Call(AdvanceOp(sessions[sid]), sid, r.outcome,
                                     sessions[sid].status, Len(r.new))
           ELSE /\ sessions' = sessions
                /\ lastCall' = Call("advance_turn", sid, "SessionNotFound",
                                     "none", 0)
        /\ UNCHANGED <<nextId, customPersonas, evals, arenaVars, setupVars, customVars, streamVars>>

\* a stream that starts for any session that has not completed
CanStart_NotCompleted(s) == s.status # "completed"

\* a stream starts only for a session that is waiting
CanStart(s) == s.status = "waiting"

\* start_streaming: the moderator's opening message
start_streaming(s) ==
    LET n == Len(s.messages) IN
    [s EXCEPT !.messages = @ \o <<Message("moderator", "moderator", n + 1)>>,
              !.opening = @ + 1,
              !.status = "active",
              !.stream = "running"]

\* the request of POST /debates/{id}/start reaching the backend
StartRequest(sid) ==
    IF CanStart(sessions[sid])
    THEN /\ sessions' = [sessions EXCEPT ![sid] = start_streaming(@)]
         /\ channel' = Emit(sid,
               <<MessageEvent(sessions'[sid].messages[Len(sessions'[sid].messages)])>>)
         /\ lastCall' = Call("start_streaming", sid, "ok",
                              sessions[sid].status, 1)
    ELSE /\ lastCall' = Call("start_streaming", sid, "rejected",
                              sessions[sid].status, 0)
         /\ UNCHANGED <<sessions, channel>>

\* POST /debates/{id}/start
ApiStartStreaming ==
    \E sid \in DOMAIN sessions :
        /\ StartRequest(sid)
        /\ UNCHANGED <<nextId, customPersonas, evals, arenaVars, setupVars, customVars,
                       sse, ws>>

\* the streaming loop halted by a failed agent call, rolling the last
\* message back
stream_failed_Rollback(s) ==
    [s EXCEPT !.stream = "error",
              !.messages = SubSeq(@, 1, Len(@) - 1)]

\* the streaming loop halted by a failed agent call
stream_failed(s) == [s EXCEPT !.stream = "error"]

\* one iteration of the streaming loop
stream_step(s, agentOk) ==
    IF s.mode = FIGURE_VS_FIGURE /\ s.status # "completed"
    THEN LET r == advance_turn_auto(s, agentOk) IN
         IF r.outcome = "ok" THEN r.session
         ELSE stream_failed(s)
    ELSE [s EXCEPT !.stream = "done"]

\* an iteration that pushes a terminal event ahead of its messages, also
\* when the loop goes on
stream_events_TerminalFirst(s, t) ==
    (IF t.stream = "done" THEN <<CompleteEvent>>
     ELSE IF t.stream = "error" THEN <<ErrorEvent>>
     ELSE <<CompleteEvent>>)
    \o [k \in 1..(Len(t.messages) - Len(s.messages)) |->
          MessageEvent(t.messages[Len(s.messages) + k])]

\* the events one iteration pushes: the new messages, then the terminal event
stream_events(s, t) ==
    [k \in 1..(Len(t.messages) - Len(s.messages)) |->
        MessageEvent(t.messages[Len(s.messages) + k])]
    \o (IF t.stream = "done" THEN <<CompleteEvent>>
        ELSE IF t.stream = "error" THEN <<ErrorEvent>>
        ELSE <<>>)

StreamStep ==
    \E sid \in DOMAIN sessions, agentOk \in BOOLEAN :
        /\ sessions[sid].stream = "running"
        /\ sessions' = [sessions EXCEPT ![sid] = stream_step(@, agentOk)]
        /\ channel' = Emit(sid, stream_events(sessions[sid], sessions'[sid]))
        /\ lastCall' = Call("stream_step", sid, "ok", sessions[sid].status,
                             Len(sessions'[sid].messages) - Len(sessions[sid].messages))
        /\ UNCHANGED <<nextId, customPersonas, evals, arenaVars, setupVars, customVars,
                       sse, ws>>

Without(f, k) == [x \in (DOMAIN f) \ {k} |-> f[x]]

\* DELETE /debates/{id}
ApiDeleteSession ==
    \E sid \in SessionIds, strict \in BOOLEAN :
        /\ sessions' = IF sid \in DOMAIN sessions THEN Without(sessions, sid)
                        ELSE sessions
        /\ lastCall' = Call("delete_session", sid,
                             IF sid \in DOMAIN sessions \/ ~strict THEN "ok"
                             ELSE "SessionNotFound", "none", 0)
        /\ evals' = IF sid \in DOMAIN evals THEN Without(evals, sid) ELSE evals
        /\ channel' = IF sid \in DOMAIN channel THEN Without(channel, sid)
                       ELSE channel
        /\ UNCHANGED <<nextId, customPersonas, arenaVars, setupVars, customVars, sse, ws>>

\* create_custom that persists the entry before it validates the topic
create_custom_Partial(known, id, resolves) ==
    [outcome |-> IF resolves THEN "ok" ELSE "PersonaValidationError",
     personas |-> known \cup {id}]

\* create_custom: validate the topic, then persist the persona
create_custom(known, id, resolves) ==
    IF resolves
    THEN [outcome |-> "ok", personas |-> known \cup {id}]
    ELSE [outcome |-> "PersonaValidationError", personas |-> known]

\* POST /personas/custom and DELETE /personas/custom/{id}
ApiCreatePersona ==
    \E id \in CustomFigures \ customPersonas, resolves \in BOOLEAN :
        LET r == create_custom(customPersonas, id, resolves) IN
        /\ customPersonas' = r.personas
        /\ lastCall' = Call("create_custom", 0, r.outcome, "none", 0)
        /\ UNCHANGED <<sessions, nextId, evals, arenaVars, setupVars, customVars, streamVars>>

ApiDeletePersona ==
    \E id \in customPersonas :
        /\ customPersonas' = customPersonas \ {id}
        /\ lastCall' = Call("delete_persona", 0, "ok", "none", 0)
        /\ UNCHANGED <<sessions, nextId, evals, arenaVars, setupVars, customVars, streamVars>>

NextBackend ==
    \/ ApiCreateSession
    \/ ApiAdvanceTurn
    \/ ApiStartStreaming
    \/ StreamStep
    \/ ApiDeleteSession
    \/ ApiCreatePersona
    \/ ApiDeletePersona

SpecBackend == InitBackend /\ [][NextBackend]_vars

-----------------------------------------------------------------------------
(* Backend: the judge / scoring adapter (specification section 4.3) *)

\* what the external judge returns: a score per criterion (logic, factual
\* accuracy, rhetoric, relevance, rebuttal strength) for each side, or a
\* response that does not parse
Malformed == [user |-> <<>>, ai |-> <<>>]
JudgeAnswers ==
    { [user |-> <<1, 1, 1, 1, 1>>, ai |-> <<1, 1, 1, 1, 0>>],
      [user |-> <<1, 0, 1, 1, 1>>, ai |-> <<1, 1, 1, 1, 1>>] }

RECURSIVE SumSeq(_)
SumSeq(q) == IF q = <<>> THEN 0 ELSE Head(q) + SumSeq(Tail(q))

\* winner by total-score comparison: strictly greater wins, equal is a tie
WinnerOf(u, a) == IF u > a THEN "user" ELSE IF u < a THEN "ai" ELSE "tie"

\* evaluate_exchange: the Evaluation computed from the judge's answer
evaluate_exchange(user_text, counter_text, answer) ==
    IF answer = Malformed
    THEN [outcome |-> "EvaluationError"]
    ELSE LET u == SumSeq(answer.user)
             a == SumSeq(answer.ai) IN
         [outcome |-> "ok",
          evaluation |-> [user_text |-> user_text, ai_text |-> counter_text,
                          user_total |-> u, ai_total |-> a,
                          winner |-> WinnerOf(u, a)]]

\* the evaluations recorded for a session
EvalsOf(sid) == IF sid \in DOMAIN evals THEN evals[sid] ELSE <<>>

RECURSIVE FoldTotals(_)
\* running sums of the per-side totals
FoldTotals(evs) ==
    IF evs = <<>> THEN [user |-> 0, ai |-> 0]
    ELSE LET r == FoldTotals(Tail(evs)) IN
         [user |-> Head(evs).user_total + r.user,
          ai |-> Head(evs).ai_total + r.ai]

\* get_cumulative: pure aggregation of the recorded evaluations
get_cumulative(evs) ==
    LET t == FoldTotals(evs) IN
    [user_cumulative_score |-> t.user,
     ai_cumulative_score |-> t.ai,
     exchanges_evaluated |-> Len(evs),
     overall_winner |-> WinnerOf(t.user, t.ai),
     score_difference |-> IF t.user >= t.ai THEN t.user - t.ai
                          ELSE t.ai - t.user]

-----------------------------------------------------------------------------
(* DebateArena (frontend/src/components/DebateArena.tsx) *)

ArenaSid == 1
mode == debateConfig[1].mode
participants == debateConfig[1].participants
sessionId == debateConfig[1].sessionId

\* values the user types into the textarea
ArenaInputs == {<<>>, <<S>>, <<A>>}

hasReachedLimit == userTurnCount >= MAX_USER_TURNS

\* The values a handler closes over: the render in which it was created.
\* Of `messages` the handlers read the length only.
Closure == [length |-> Len(messages), userTurnCount |-> userTurnCount]

Request(kind, c) ==
    [stage |-> "request", kind |-> kind, sid |-> sessionId, closure |-> c]

Response(req, r) ==
    [stage |-> "response", kind |-> req.kind, sid |-> req.sid,
     closure |-> req.closure, ok |-> r.outcome = "ok",
     outcome |-> r.outcome, new |-> r.new,
     current_turn |-> r.session.current_turn,
     max_turns |-> r.session.max_turns]

RemoveAt(q, i) == SubSeq(q, 1, i - 1) \o SubSeq(q, i + 1, Len(q))

\* the textarea, the mic button and the Send button are rendered
InputBoxShown == mode # FIGURE_VS_FIGURE /\ ~isRecording
\* the input box also disabled while an error is shown
InputDisabled_AfterError ==
    isSendingMessage \/ hasReachedLimit \/ error

\* the input box also disabled while an evaluation is pending
InputDisabled_WhileEvaluating ==
    isSendingMessage \/ hasReachedLimit \/ isEvaluating

\* disabled={isSendingMessage || hasReachedLimit}
InputDisabled == isSendingMessage \/ hasReachedLimit

\* textarea onChange
SetUserInput ==
    \E v \in ArenaInputs :
        /\ InputBoxShown /\ ~InputDisabled
        /\ v # userInput
        /\ userInput' = v
        /\ UNCHANGED <<messages, userTurnCount, currentTurn, maxTurns,
                       isSendingMessage, isGeneratingTurn, isRecording, error,
                       micPending, recorder, net, arenaAdvances,
                       backendVars, setupVars, customVars, streamVars, judgeVars>>

\* handleSendMessage up to its await (Send button, or Enter in the textarea)
handleSendMessage ==
    /\ InputBoxShown /\ ~InputDisabled
    /\ Len(net) < MaxInFlight
    /\ ~(Trim(userInput) = <<>> \/ isSendingMessage)
    /\ IF hasReachedLimit
       THEN /\ error' = TRUE
            /\ UNCHANGED <<isSendingMessage, net>>
       ELSE /\ isSendingMessage' = TRUE
            /\ error' = FALSE
            /\ net' = Append(net, Request("text", Closure))
    /\ UNCHANGED <<messages, userTurnCount, currentTurn, maxTurns,
                   isGeneratingTurn, isRecording, userInput, micPending,
                   recorder, arenaAdvances, backendVars, setupVars, customVars, streamVars, judgeVars>>

\* startRecording up to its await of getUserMedia (mic button)
startRecording ==
    /\ InputBoxShown /\ ~InputDisabled
    /\ Cardinality(micPending) < MaxPendingMic
    /\ IF hasReachedLimit
       THEN error' = TRUE /\ UNCHANGED micPending
       ELSE micPending' = micPending \cup {Closure} /\ UNCHANGED error
    /\ UNCHANGED <<messages, userTurnCount, currentTurn, maxTurns,
                   isSendingMessage, isGeneratingTurn, isRecording, userInput,
                   recorder, net, arenaAdvances, backendVars, setupVars, customVars, streamVars, judgeVars>>

\* getUserMedia resolves: the recorder is created and started
getUserMediaResolved ==
    \E c \in micPending :
        /\ micPending' = micPending \ {c}
        /\ recorder' = <<c>>
        /\ isRecording' = TRUE
        /\ UNCHANGED <<messages, userTurnCount, currentTurn, maxTurns,
                       isSendingMessage, isGeneratingTurn, userInput, error,
                       net, arenaAdvances, backendVars, setupVars, customVars, streamVars, judgeVars>>

\* getUserMedia rejects (permission denied)
getUserMediaRejected ==
    \E c \in micPending :
        /\ micPending' = micPending \ {c}
        /\ error' = TRUE
        /\ UNCHANGED <<messages, userTurnCount, currentTurn, maxTurns,
                       isSendingMessage, isGeneratingTurn, isRecording,
                       userInput, recorder, net, arenaAdvances,
                       backendVars, setupVars, customVars, streamVars, judgeVars>>

\* sendVoiceMessage up to its await, run by the recorder's onstop with the
\* closure c of the render that started the recording
sendVoiceMessage(c) ==
    IF c.userTurnCount >= MAX_USER_TURNS
    THEN /\ error' = TRUE
         /\ UNCHANGED <<isSendingMessage, net>>
    ELSE /\ isSendingMessage' = TRUE
         /\ error' = FALSE
         /\ net' = Append(net, Request("voice", c))

\* stopRecording ("Stop & Send"), then mediaRecorder.onstop.  The stopped
\* recorder is dropped here: stopRecording needs isRecording, which only
\* getUserMediaResolved sets, together with a new recorder.
stopRecording ==
    /\ mode # FIGURE_VS_FIGURE /\ isRecording
    /\ recorder # <<>>
    /\ Len(net) < MaxInFlight
    /\ isRecording' = FALSE
    /\ recorder' = <<>>
    /\ sendVoiceMessage(recorder[1])
    /\ UNCHANGED <<messages, userTurnCount, currentTurn, maxTurns,
                   isGeneratingTurn, userInput, micPending,
                   arenaAdvances, backendVars, setupVars, customVars, streamVars, judgeVars>>
\* the disabled attribute comparing against maxTurns instead of maxTurns * 2
NextTurnDisabled_Half ==
    isSendingMessage \/ isGeneratingTurn \/ currentTurn >= maxTurns

\* the Next Turn button's disabled attribute
NextTurnDisabled ==
    isSendingMessage \/ isGeneratingTurn \/ currentTurn >= maxTurns * 2

\* generateNextTurn up to its await (Next Turn button)
generateNextTurn ==
    /\ mode = FIGURE_VS_FIGURE
    /\ ~NextTurnDisabled
    /\ ~isGeneratingTurn
    /\ Len(net) < MaxInFlight
    /\ isGeneratingTurn' = TRUE
    /\ isSendingMessage' = TRUE
    /\ error' = FALSE
    /\ net' = Append(net, Request("next", Closure))
    /\ UNCHANGED <<messages, userTurnCount, currentTurn, maxTurns,
                   isRecording, userInput, micPending, recorder,
                   arenaAdvances, backendVars, setupVars, customVars, streamVars, judgeVars>>
\* getNextSpeaker off by one message
getNextSpeaker_Off == participants[((Len(messages) + 1) % 2) + 1]

\* getNextSpeaker
getNextSpeaker == participants[(Len(messages) % 2) + 1]

\* The backend serves one request of the arena.
BackendServe ==
    \E i \in 1..Len(net), agentOk \in BOOLEAN :
        /\ net[i].stage = "request"
        /\ LET s == sessions[net[i].sid]
               r == advance_turn(s, agentOk) IN
           /\ sessions' = [sessions EXCEPT ![net[i].sid] = r.session]
           /\ net' = [net EXCEPT ![i] = Response(net[i], r)]
        /\ UNCHANGED <<nextId, customPersonas, lastCall, messages, userTurnCount,
                       currentTurn, maxTurns, isSendingMessage,
                       isGeneratingTurn, isRecording, userInput, error,
                       micPending, recorder, arenaAdvances, evals, setupVars, customVars, streamVars,
                       judgeVars>>

\* setTimeout delays, in milliseconds
EvalDelay == 1000
GameOverDelay == 2000

\* a pending setTimeout callback and the render it closes over
Timer(kind, delay, c) == [kind |-> kind, delay |-> delay, closure |-> c]

\* setTimeout(() => setShowGameOver(true), 2000), when the debate is over
GameOverTimer(finished, c) ==
    IF finished THEN <<Timer("setShowGameOver", GameOverDelay, c)>> ELSE <<>>

\* the two DebateMessage objects handleSendMessage / sendVoiceMessage build
ExchangeMessages(c, resp) ==
    << [speaker_id |-> "user", role |-> "user",
        turn_number |-> c.length + 1,
        content |-> resp.new[1].content],
       [speaker_id |-> participants[1], role |-> "participant",
        turn_number |-> c.length + 2,
        content |-> resp.new[2].content] >>
\* setMessages that appends the AI message only
AppendExchange_AiOnly(prev, c, resp) ==
    Append(prev, ExchangeMessages(c, resp)[2])

\* setMessages that replaces the list instead of appending to it
AppendExchange_Replace(prev, c, resp) == ExchangeMessages(c, resp)

\* setMessages(prev => [...prev, userMessage, aiMessage])
AppendExchange(prev, c, resp) == prev \o ExchangeMessages(c, resp)

\* handleSendMessage after its await
SendMessageSettled ==
    \E i \in 1..Len(net) :
        /\ net[i].stage = "response" /\ net[i].kind = "text"
        /\ net' = RemoveAt(net, i)
        /\ IF net[i].ok
           THEN /\ messages' = AppendExchange(messages, net[i].closure, net[i])
                /\ userTurnCount' = net[i].closure.userTurnCount + 1
                /\ userInput' = <<>>
                /\ arenaAdvances' = arenaAdvances + 1
                /\ timers' = timers
                      \o <<Timer("evaluateLastExchange", EvalDelay, net[i].closure)>>
                      \o GameOverTimer(net[i].closure.userTurnCount + 1
                                            >= MAX_USER_TURNS, net[i].closure)
                /\ UNCHANGED error
           ELSE /\ error' = TRUE
                /\ UNCHANGED <<messages, userTurnCount, userInput,
                               arenaAdvances, timers>>
        /\ isSendingMessage' = FALSE
        /\ UNCHANGED <<currentTurn, maxTurns, isGeneratingTurn, isRecording,
                       micPending, recorder, backendVars, setupVars, customVars, streamVars,
                       latestEvaluation, cumulativeScores, isEvaluating,
                       showGameOver, evalNet, evalLog>>

\* sendVoiceMessage after its await
VoiceMessageSettled ==
    \E i \in 1..Len(net) :
        /\ net[i].stage = "response" /\ net[i].kind = "voice"
        /\ net' = RemoveAt(net, i)
        /\ IF net[i].ok
           THEN /\ messages' = AppendExchange(messages, net[i].closure, net[i])
                /\ userTurnCount' = net[i].closure.userTurnCount + 1
                /\ arenaAdvances' = arenaAdvances + 1
                /\ timers' = timers
                      \o GameOverTimer(net[i].closure.userTurnCount + 1
                                            >= MAX_USER_TURNS, net[i].closure)
                /\ UNCHANGED error
           ELSE /\ error' = TRUE
                /\ UNCHANGED <<messages, userTurnCount, arenaAdvances, timers>>
        /\ isSendingMessage' = FALSE
        /\ UNCHANGED <<currentTurn, maxTurns, isGeneratingTurn, isRecording,
                       userInput, micPending, recorder, backendVars, setupVars, customVars, streamVars,
                       latestEvaluation, cumulativeScores, isEvaluating,
                       showGameOver, evalNet, evalLog>>

\* the DebateMessage generateNextTurn builds
TurnMessage(c, resp) ==
    [speaker_id |-> resp.new[1].speaker_id, role |-> "participant",
     turn_number |-> c.length + 1,
     content |-> resp.new[1].content]

\* setMessages(prev => [...prev, newMessage])
AppendTurn(prev, c, resp) == Append(prev, TurnMessage(c, resp))

\* generateNextTurn after its await
NextTurnSettled ==
    \E i \in 1..Len(net) :
        /\ net[i].stage = "response" /\ net[i].kind = "next"
        /\ net' = RemoveAt(net, i)
        /\ IF net[i].ok
           THEN /\ messages' = AppendTurn(messages, net[i].closure, net[i])
                /\ currentTurn' = net[i].current_turn
                /\ maxTurns' = net[i].max_turns
                /\ arenaAdvances' = arenaAdvances + 1
                /\ timers' = timers
                      \o (IF net[i].closure.length >= 1
                              /\ net[i].closure.length % 2 = 1
                          THEN <<Timer("evaluateFigureExchange", EvalDelay,
                                       net[i].closure)>>
                          ELSE <<>>)
                      \o GameOverTimer(net[i].current_turn
                                            >= net[i].max_turns * 2, net[i].closure)
                /\ UNCHANGED error
           ELSE /\ error' = TRUE
                /\ UNCHANGED <<messages, currentTurn, maxTurns, arenaAdvances,
                               timers>>
        /\ isSendingMessage' = FALSE
        /\ isGeneratingTurn' = FALSE
        /\ UNCHANGED <<userTurnCount, isRecording, userInput, micPending,
                       recorder, backendVars, setupVars, customVars, streamVars,
                       latestEvaluation, cumulativeScores, isEvaluating,
                       showGameOver, evalNet, evalLog>>

-----------------------------------------------------------------------------
(* DebateArena: judge evaluation and the game-over dialog *)

\* the arena state the evaluation handlers leave alone
turnVars == <<messages, userTurnCount, currentTurn, maxTurns,
              isSendingMessage, isGeneratingTurn, isRecording, userInput,
              error, micPending, recorder, net, arenaAdvances>>

\* a timer fires once every timer set before it with the same or a shorter
\* delay has fired
CanFire(i) == \A j \in 1..(i - 1) : timers[j].delay > timers[i].delay

\* `messages` as the render of closure c saw it
MessagesOf(c) == SubSeq(messages, 1, c.length)

\* messages.slice(-2)
LastTwo(msgs) == SubSeq(msgs, IF Len(msgs) > 2 THEN Len(msgs) - 1 ELSE 1, Len(msgs))

\* recentMessages.find(m => m.role === r): <<m>> or <<>> when there is none
Find(msgs, r) ==
    IF \E k \in 1..Len(msgs) : msgs[k].role = r
    THEN <<msgs[CHOOSE k \in 1..Len(msgs) :
                  /\ msgs[k].role = r
                  /\ \A l \in 1..(k - 1) : msgs[l].role # r]>>
    ELSE <<>>

EvalRequest(user_text, ai_text) ==
    [stage |-> "evaluate", sid |-> sessionId,
     user_text |-> user_text, ai_text |-> ai_text]

\* apiService.evaluateExchange is called with the two texts
CallEvaluate(user_text, ai_text) ==
    /\ isEvaluating' = TRUE
    /\ evalNet' = Append(evalNet, EvalRequest(user_text, ai_text))
    /\ evalLog' = Append(evalLog, [user_text |-> user_text, ai_text |-> ai_text])

\* evaluateLastExchange up to its await, run by the timer of handleSendMessage
evaluateLastExchange ==
    \E i \in 1..Len(timers) :
        /\ timers[i].kind = "evaluateLastExchange" /\ CanFire(i)
        /\ Len(evalNet) < MaxEvalInFlight
        /\ timers' = RemoveAt(timers, i)
        /\ LET msgs    == MessagesOf(timers[i].closure)
               recent  == LastTwo(msgs)
               userMsg == Find(recent, "user")
               aiMsg   == Find(recent, "participant") IN
           IF Len(msgs) < 2 \/ userMsg = <<>> \/ aiMsg = <<>>
           THEN UNCHANGED <<isEvaluating, evalNet, evalLog>>
           ELSE CallEvaluate(userMsg[1].content, aiMsg[1].content)
        /\ UNCHANGED <<turnVars, latestEvaluation, cumulativeScores,
                       showGameOver, backendVars, setupVars, customVars, streamVars>>

\* evaluateFigureExchange up to its await, run by the timer of generateNextTurn
evaluateFigureExchange ==
    \E i \in 1..Len(timers) :
        /\ timers[i].kind = "evaluateFigureExchange" /\ CanFire(i)
        /\ Len(evalNet) < MaxEvalInFlight
        /\ timers' = RemoveAt(timers, i)
        /\ LET msgs    == MessagesOf(timers[i].closure)
               lastTwo == LastTwo(msgs) IN
           IF Len(msgs) < 2 \/ Len(lastTwo) # 2
           THEN UNCHANGED <<isEvaluating, evalNet, evalLog>>
           ELSE CallEvaluate(lastTwo[1].content, lastTwo[2].content)
        /\ UNCHANGED <<turnVars, latestEvaluation, cumulativeScores,
                       showGameOver, backendVars, setupVars, customVars, streamVars>>

\* the timer that opens the game-over dialog
setShowGameOver ==
    \E i \in 1..Len(timers) :
        /\ timers[i].kind = "setShowGameOver" /\ CanFire(i)
        /\ timers' = RemoveAt(timers, i)
        /\ showGameOver' = TRUE
        /\ UNCHANGED <<turnVars, latestEvaluation, cumulativeScores,
                       isEvaluating, evalNet, evalLog, backendVars, setupVars, customVars, streamVars>>

\* the judge's answers to the arena's requests
ArenaJudgeAnswers == JudgeAnswers \cup {Malformed}

\* The backend serves an evaluateExchange call of the arena.
BackendEvaluate ==
    \E i \in 1..Len(evalNet), answer \in ArenaJudgeAnswers :
        /\ evalNet[i].stage = "evaluate"
        /\ LET q == evalNet[i]
               r == evaluate_exchange(q.user_text, q.ai_text, answer) IN
           IF r.outcome = "ok"
           THEN /\ evals' = (q.sid :> Append(EvalsOf(q.sid), r.evaluation)) @@ evals
                /\ evalNet' = [evalNet EXCEPT ![i] =
                       [stage |-> "evaluated", sid |-> q.sid, ok |-> TRUE,
                        evaluation |-> r.evaluation]]
           ELSE /\ evals' = evals
                /\ evalNet' = [evalNet EXCEPT ![i] =
                       [stage |-> "evaluated", sid |-> q.sid, ok |-> FALSE]]
        /\ UNCHANGED <<sessions, nextId, customPersonas, lastCall, turnVars,
                       latestEvaluation, cumulativeScores, isEvaluating,
                       showGameOver, timers, evalLog, setupVars, customVars, streamVars>>

\* evaluateLastExchange / evaluateFigureExchange after evaluateExchange
\* settled: setLatestEvaluation and the call of getCumulativeScores, or the
\* catch and finally blocks
EvaluationSettled ==
    \E i \in 1..Len(evalNet) :
        /\ evalNet[i].stage = "evaluated"
        /\ IF evalNet[i].ok
           THEN /\ latestEvaluation' = <<evalNet[i].evaluation>>
                /\ evalNet' = [evalNet EXCEPT ![i] =
                       [stage |-> "scores", sid |-> evalNet[i].sid]]
                /\ UNCHANGED isEvaluating
           ELSE /\ evalNet' = RemoveAt(evalNet, i)
                /\ isEvaluating' = FALSE
                /\ UNCHANGED latestEvaluation
        /\ UNCHANGED <<turnVars, cumulativeScores, showGameOver, timers,
                       evalLog, backendVars, setupVars, customVars, streamVars>>

\* The backend serves a getCumulativeScores call of the arena.
BackendScores ==
    \E i \in 1..Len(evalNet) :
        /\ evalNet[i].stage = "scores"
        /\ evalNet' = [evalNet EXCEPT ![i] =
               [stage |-> "scored", sid |-> evalNet[i].sid,
                cumulative |-> get_cumulative(EvalsOf(evalNet[i].sid))]]
        /\ UNCHANGED <<turnVars, latestEvaluation, cumulativeScores,
                       isEvaluating, showGameOver, timers, evalLog,
                       backendVars, setupVars, customVars, streamVars>>

\* after getCumulativeScores settled: setCumulativeScores and finally
ScoresSettled ==
    \E i \in 1..Len(evalNet) :
        /\ evalNet[i].stage = "scored"
        /\ cumulativeScores' = <<evalNet[i].cumulative>>
        /\ isEvaluating' = FALSE
        /\ evalNet' = RemoveAt(evalNet, i)
        /\ UNCHANGED <<turnVars, latestEvaluation, showGameOver, timers,
                       evalLog, backendVars, setupVars, customVars, streamVars>>

\* Scoreboard naming the other side as the leader
ScoreboardBanner_Swapped(cs) ==
    IF cs = <<>> \/ cs[1].exchanges_evaluated = 0 THEN "No evaluations yet"
    ELSE IF cs[1].overall_winner = "user" THEN "figure is leading!"
    ELSE IF cs[1].overall_winner = "ai" THEN "You are leading!"
    ELSE IF cs[1].overall_winner = "tie" THEN "Perfect tie!"
    ELSE ""

\* Scoreboard: the banner that names the leader
ScoreboardBanner(cs) ==
    IF cs = <<>> \/ cs[1].exchanges_evaluated = 0 THEN "No evaluations yet"
    ELSE IF cs[1].overall_winner = "user" THEN "You are leading!"
    ELSE IF cs[1].overall_winner = "ai" THEN "figure is leading!"
    ELSE IF cs[1].overall_winner = "tie" THEN "Perfect tie!"
    ELSE ""

\* Scoreboard: the line under the banner
ScoreboardMargin(cs) ==
    IF cs = <<>> \/ cs[1].exchanges_evaluated = 0 THEN ""
    ELSE IF cs[1].score_difference > 0 THEN "By points"
    ELSE IF cs[1].score_difference = 0 THEN "Completely even"
    ELSE ""

\* the header of the game-over dialog: its title and the side it names as
\* the winner (cs is the arena's cumulativeScores, <<>> when null)
GameOverHeader(cs, m) ==
    IF cs # <<>> /\ cs[1].overall_winner = "user"
    THEN [title |-> IF m = FIGURE_VS_FIGURE THEN "WINNER!" ELSE "VICTORY!",
          winner |-> "first"]
    ELSE IF cs # <<>> /\ cs[1].overall_winner = "ai"
    THEN [title |-> IF m = FIGURE_VS_FIGURE THEN "WINNER!" ELSE "DEFEAT",
          winner |-> "second"]
    ELSE [title |-> "TIE!", winner |-> "none"]

JudgeNext ==
    \/ evaluateLastExchange
    \/ evaluateFigureExchange
    \/ setShowGameOver
    \/ BackendEvaluate
    \/ EvaluationSettled
    \/ BackendScores
    \/ ScoresSettled

\* the session App.handleStartDebate obtained, and the arena mounted on it
ArenaConfigs ==
    { [mode |-> USER_VS_FIGURE, participants |-> <<"lincoln">>],
      [mode |-> FIGURE_VS_FIGURE, participants |-> <<"lincoln", "tesla">>] }

Init ==
    \E cfg \in ArenaConfigs, mt \in TurnOptions :
        /\ cfg.mode = USER_VS_FIGURE => mt <= MaxUserOption
        /\ cfg.mode = FIGURE_VS_FIGURE => mt <= MaxFigureOption
        /\ sessions = (ArenaSid :> NewSession(<<A>>, cfg.participants, mt, cfg.mode))
        /\ nextId = ArenaSid + 1
        /\ customPersonas = {}
        /\ lastCall = Call("create_session", ArenaSid, "ok", "none", 0)
        /\ evals = <<>>
        /\ ArenaIdle
        /\ StreamIdle
        /\ CustomIdle
        /\ currentView = "debate"
        /\ debateConfig = <<[sessionId |-> ArenaSid,
                             participants |-> cfg.participants,
                             mode |-> cfg.mode]>>
        /\ creatingDebate = FALSE /\ appError = FALSE
        /\ figures = BuiltinFigures
        /\ topic = <<>> /\ selectedFigures = <<>> /\ setupMaxTurns = DefaultMaxTurns
        /\ debateMode = USER_VS_FIGURE /\ setupVariant = "modes"
        /\ createNet = <<>> /\ submitted = 1

Next ==
    \/ SetUserInput
    \/ handleSendMessage
    \/ startRecording
    \/ getUserMediaResolved
    \/ getUserMediaRejected
    \/ stopRecording
    \/ generateNextTurn
    \/ BackendServe
    \/ SendMessageSettled
    \/ VoiceMessageSettled
    \/ NextTurnSettled

Spec == Init /\ [][Next]_vars

\* The arena mounted on a figure-vs-figure session: the text and voice
\* controls are not rendered, so only Next Turn acts.
InitFigures == Init /\ mode = FIGURE_VS_FIGURE

NextFigures ==
    \/ generateNextTurn
    \/ BackendServe
    \/ NextTurnSettled
    \/ evaluateFigureExchange
    \/ setShowGameOver
    \/ BackendEvaluate
    \/ EvaluationSettled
    \/ BackendScores
    \/ ScoresSettled

SpecFigures == InitFigures /\ [][NextFigures]_vars

\* The arena with its judge evaluations and game-over timers, driven by
\* typed messages and Next Turn (the microphone is left alone).
NextJudge ==
    \/ SetUserInput
    \/ handleSendMessage
    \/ generateNextTurn
    \/ BackendServe
    \/ SendMessageSettled
    \/ NextTurnSettled
    \/ JudgeNext

SpecJudge == Init /\ [][NextJudge]_vars

-----------------------------------------------------------------------------
(* DebateSetup and App (SpecSetup) *)

\* the options of the single-mode form's select
LegacyTurnOptions == {4, 6, 8, 10}

\* the options picked in the form: the shortest one and the default
SetupTurnChoices == {2, DefaultMaxTurns}

Includes(seq, x) == \E i \in 1..Len(seq) : seq[i] = x

RECURSIVE Filter(_, _)
\* selectedFigures.filter(id => id !== x)
Filter(seq, x) ==
    IF seq = <<>> THEN <<>>
    ELSE IF Head(seq) = x THEN Filter(Tail(seq), x)
    ELSE <<Head(seq)>> \o Filter(Tail(seq), x)

\* toggleFigure keeping the older of the two figures when a third is clicked
toggleFigure_KeepOldest(sel, m, id) ==
    IF Includes(sel, id) THEN Filter(sel, id)
    ELSE LET maxSelection == IF m = USER_VS_FIGURE THEN 1 ELSE 2 IN
         IF Len(sel) < maxSelection THEN Append(sel, id)
         ELSE IF m = FIGURE_VS_FIGURE THEN <<sel[1], id>>
         ELSE <<id>>

\* toggleFigure of the form with the mode buttons
toggleFigure(sel, m, id) ==
    IF Includes(sel, id) THEN Filter(sel, id)
    ELSE LET maxSelection == IF m = USER_VS_FIGURE THEN 1 ELSE 2 IN
         IF Len(sel) < maxSelection THEN Append(sel, id)
         ELSE IF m = FIGURE_VS_FIGURE THEN <<sel[2], id>>
         ELSE <<id>>

\* toggleFigure of the single-mode form
toggleFigureLegacy(sel, id) ==
    IF Includes(sel, id) THEN Filter(sel, id) ELSE <<id>>

requiredFigures(m) == IF m = USER_VS_FIGURE THEN 1 ELSE 2

\* isValid of the form with the mode buttons
isValid(t, sel, m) == Trim(t) # <<>> /\ Len(sel) = requiredFigures(m)
\* handleSubmit testing the topic without trimming it
SubmitAllowed_NoTrim(variant, t, sel, m) ==
    t # <<>> /\ Len(sel) = (IF variant = "modes" THEN requiredFigures(m) ELSE 1)

\* the condition under which handleSubmit calls onStartDebate
SubmitAllowed(variant, t, sel, m) ==
    IF variant = "modes" THEN Trim(t) # <<>> /\ isValid(t, sel, m)
    ELSE Trim(t) # <<>> /\ Len(sel) = 1

FormReset ==
    /\ topic' = <<>> /\ selectedFigures' = <<>>
    /\ setupMaxTurns' = DefaultMaxTurns
    /\ debateMode' = USER_VS_FIGURE
    /\ setupVariant' = "modes"

FormUnchanged ==
    UNCHANGED <<topic, selectedFigures, setupMaxTurns, debateMode, setupVariant>>

\* App.handleSetupDebate: DebateSetup is mounted (either of its two builds).
\* The selection view renders the button only while no error is shown.
handleSetupDebate ==
    \E v \in {"modes", "single"} :
        /\ currentView = "selection" /\ ~appError
        /\ currentView' = "setup"
        /\ topic' = <<>> /\ selectedFigures' = <<>>
        /\ setupMaxTurns' = DefaultMaxTurns
        /\ debateMode' = USER_VS_FIGURE
        /\ setupVariant' = v
        /\ UNCHANGED <<debateConfig, creatingDebate, appError, figures,
                       createNet, submitted, backendVars, arenaVars, streamVars, customVars>>

\* topic input onChange
setTopic ==
    \E v \in Strings :
        /\ currentView = "setup"
        /\ v # topic
        /\ topic' = v
        /\ UNCHANGED <<currentView, debateConfig, creatingDebate, appError,
                       figures, selectedFigures, setupMaxTurns, debateMode,
                       setupVariant, createNet, submitted, backendVars, arenaVars, streamVars, customVars>>

\* a click on a figure
ToggleFigure ==
    \E id \in figures :
        /\ currentView = "setup"
        /\ selectedFigures' =
              IF setupVariant = "modes"
              THEN toggleFigure(selectedFigures, debateMode, id)
              ELSE toggleFigureLegacy(selectedFigures, id)
        /\ UNCHANGED <<currentView, debateConfig, creatingDebate, appError,
                       figures, topic, setupMaxTurns, debateMode,
                       setupVariant, createNet, submitted, backendVars, arenaVars, streamVars, customVars>>

\* a click on a mode button
setDebateMode ==
    \E m \in DebateMode :
        /\ currentView = "setup" /\ setupVariant = "modes"
        /\ debateMode' = m
        /\ selectedFigures' = <<>>
        /\ UNCHANGED <<currentView, debateConfig, creatingDebate, appError,
                       figures, topic, setupMaxTurns, setupVariant,
                       createNet, submitted, backendVars, arenaVars, streamVars, customVars>>

\* the Debate Length select
setMaxTurns ==
    \E n \in TurnOptions :
        /\ currentView = "setup"
        /\ n \in SetupTurnChoices
        /\ setupVariant = "single" => n \in LegacyTurnOptions
        /\ n # setupMaxTurns
        /\ setupMaxTurns' = n
        /\ UNCHANGED <<currentView, debateConfig, creatingDebate, appError,
                       figures, topic, selectedFigures, debateMode,
                       setupVariant, createNet, submitted, backendVars, arenaVars, streamVars, customVars>>

CreateRequest(t, pids, mt, m) ==
    [stage |-> "request", topic |-> t, participants |-> pids,
     max_turns |-> mt, mode |-> m]

\* DebateSetup.handleSubmit calling App.handleStartDebate, up to its await
handleSubmit ==
    /\ currentView = "setup"
    /\ SubmitAllowed(setupVariant, topic, selectedFigures, debateMode)
    /\ submitted < MaxCreates
    /\ submitted' = submitted + 1
    /\ creatingDebate' = TRUE
    /\ appError' = FALSE
    /\ createNet' = Append(createNet,
            CreateRequest(topic, selectedFigures, setupMaxTurns, debateMode))
    /\ FormUnchanged
    /\ UNCHANGED <<currentView, debateConfig, figures, backendVars, arenaVars, streamVars, customVars>>

\* onCancel
handleCancelSetup ==
    /\ currentView = "setup"
    /\ currentView' = "selection"
    /\ FormReset
    /\ UNCHANGED <<debateConfig, creatingDebate, appError, figures, createNet,
                   submitted, backendVars, arenaVars, streamVars, customVars>>

\* The backend serves a createDebate request.
BackendCreate ==
    \E i \in 1..Len(createNet) :
        /\ createNet[i].stage = "request"
        /\ LET q == createNet[i]
               out == create_session_outcome(q.topic, q.participants, q.mode,
                                             Personas) IN
           /\ sessions' = IF out = "ok"
                           THEN (nextId :> NewSession(q.topic, q.participants,
                                                      q.max_turns, q.mode))
                                @@ sessions
                           ELSE sessions
           /\ nextId' = IF out = "ok" THEN nextId + 1 ELSE nextId
           /\ createNet' = [createNet EXCEPT ![i] =
                  [stage |-> "response", ok |-> out = "ok", outcome |-> out,
                   session_id |-> IF out = "ok" THEN nextId ELSE 0,
                   participants |-> q.participants, mode |-> q.mode]]
        /\ UNCHANGED <<customPersonas, lastCall, evals, arenaVars, streamVars, customVars, currentView,
                       debateConfig, creatingDebate, appError, figures,
                       submitted>>
        /\ FormUnchanged

\* App.handleStartDebate after its await
StartDebateSettled ==
    \E i \in 1..Len(createNet) :
        /\ createNet[i].stage = "response"
        /\ createNet' = RemoveAt(createNet, i)
        /\ IF createNet[i].ok
           THEN /\ debateConfig' = <<[sessionId |-> createNet[i].session_id,
                                      participants |-> createNet[i].participants,
                                      mode |-> createNet[i].mode]>>
                /\ currentView' = "debate"
                /\ UNCHANGED appError
           ELSE /\ appError' = TRUE
                /\ currentView' = "selection"
                /\ UNCHANGED debateConfig
        /\ creatingDebate' = FALSE
        /\ IF currentView = "setup" THEN FormReset ELSE FormUnchanged
        /\ UNCHANGED <<figures, submitted, backendVars, arenaVars, streamVars, customVars>>

\* App.handleBackToSelection (the arena's onBack)
handleBackToSelection ==
    /\ currentView = "debate" /\ debateConfig # <<>>
    /\ currentView' = "selection"
    /\ debateConfig' = <<>>
    /\ FormUnchanged
    /\ UNCHANGED <<creatingDebate, appError, figures, createNet, submitted,
                   backendVars, arenaVars, streamVars, customVars>>

InitSetup ==
    /\ sessions = <<>>
    /\ nextId = 1
    /\ customPersonas \in SUBSET CustomFigures
    /\ lastCall = NoCall
    /\ evals = <<>>
    /\ ArenaIdle
    /\ StreamIdle
    /\ CustomIdle
    /\ currentView = "selection" /\ debateConfig = <<>>
    /\ creatingDebate = FALSE /\ appError = FALSE
    /\ figures = BuiltinFigures \cup customPersonas
    /\ topic = <<>> /\ selectedFigures = <<>>
    /\ setupMaxTurns = DefaultMaxTurns
    /\ debateMode = USER_VS_FIGURE /\ setupVariant = "modes"
    /\ createNet = <<>> /\ submitted = 0

NextSetup ==
    \/ handleSetupDebate
    \/ setTopic
    \/ ToggleFigure
    \/ setDebateMode
    \/ setMaxTurns
    \/ handleSubmit
    \/ handleCancelSetup
    \/ BackendCreate
    \/ StartDebateSettled
    \/ handleBackToSelection
    \/ ApiDeletePersona

SpecSetup == InitSetup /\ [][NextSetup]_vars

-----------------------------------------------------------------------------
(* CreateCustomFigure and App (SpecCustom) *)

\* values of the Wikipedia Topic input: empty, a topic that resolves, and one
\* that does not
NoArticle == "z"
CfTopics == {<<>>, <<A>>, <<NoArticle>>}
Resolves(t) == t = <<A>>

\* the persona id the backend derives for the figure the form creates
CfPersonaId == "curie"

\* isValid = figureName.trim() && topic.trim()
cfIsValid == Trim(figureName) # <<>> /\ Trim(cfTopic) # <<>>

CfFormReset ==
    /\ figureName' = <<>> /\ cfTopic' = <<>>
    /\ isCreating' = FALSE /\ cfError' = FALSE /\ cfSuccess' = FALSE

\* App.handleCreateCustomFigure: the form is mounted
handleCreateCustomFigure ==
    /\ currentView = "selection" /\ ~appError
    /\ currentView' = "create-custom"
    /\ CfFormReset
    /\ UNCHANGED <<debateConfig, creatingDebate, appError, figures, topic,
                   selectedFigures, setupMaxTurns, debateMode, setupVariant,
                   createNet, submitted, customNet, cfTimers, cfLog,
                   backendVars, arenaVars, streamVars>>

\* Figure Name input onChange
setFigureName ==
    \E v \in Strings :
        /\ currentView = "create-custom" /\ ~isCreating
        /\ v # figureName
        /\ figureName' = v
        /\ UNCHANGED <<cfTopic, isCreating, cfError, cfSuccess, customNet,
                       cfTimers, cfLog, backendVars, arenaVars, setupVars,
                       streamVars>>

\* Wikipedia Topic input onChange
setCfTopic ==
    \E v \in CfTopics :
        /\ currentView = "create-custom" /\ ~isCreating
        /\ v # cfTopic
        /\ cfTopic' = v
        /\ UNCHANGED <<figureName, isCreating, cfError, cfSuccess, customNet,
                       cfTimers, cfLog, backendVars, arenaVars, setupVars,
                       streamVars>>

\* the createCustomFigure calls the form has made
CfSubmitted == Cardinality({k \in 1..Len(cfLog) : cfLog[k] = "submit"})

\* CreateCustomFigure.handleSubmit up to its await
cfHandleSubmit ==
    /\ currentView = "create-custom"
    /\ cfIsValid /\ ~isCreating
    /\ CfSubmitted < MaxCustomCreates
    /\ cfError' = FALSE /\ cfSuccess' = FALSE
    /\ isCreating' = TRUE
    /\ customNet' = Append(customNet,
          [kind |-> "create", stage |-> "request", topic |-> cfTopic,
           ok |-> FALSE, listing |-> {}])
    /\ cfLog' = Append(cfLog, "submit")
    /\ UNCHANGED <<figureName, cfTopic, cfTimers, backendVars, arenaVars,
                   setupVars, streamVars>>

\* The backend serves the form's createCustomFigure request.
BackendCreateCustom ==
    \E i \in 1..Len(customNet) :
        /\ customNet[i].kind = "create" /\ customNet[i].stage = "request"
        /\ LET r == create_custom(customPersonas, CfPersonaId,
                                  Resolves(customNet[i].topic)) IN
           /\ customPersonas' = r.personas
           /\ lastCall' = Call("create_custom", 0, r.outcome, "none", 0)
           /\ customNet' = [customNet EXCEPT ![i].stage = "response",
                                             ![i].ok = (r.outcome = "ok")]
        /\ UNCHANGED <<sessions, nextId, evals, arenaVars, setupVars,
                       streamVars, figureName, cfTopic, isCreating, cfError,
                       cfSuccess, cfTimers, cfLog>>

\* a handler that also schedules onFigureCreated when the call failed
AfterCreate_AlwaysNotify(ok) ==
    [success |-> ok, error |-> ~ok, timers |-> 1]

\* handleSubmit after its await: setSuccess and the timer of onFigureCreated,
\* or setError
AfterCreate(ok) ==
    IF ok THEN [success |-> TRUE, error |-> FALSE, timers |-> 1]
    ELSE [success |-> FALSE, error |-> TRUE, timers |-> 0]

\* handleSubmit after createCustomFigure settled (try / catch / finally)
CreateCustomSettled ==
    \E i \in 1..Len(customNet) :
        /\ customNet[i].kind = "create" /\ customNet[i].stage = "response"
        /\ LET r == AfterCreate(customNet[i].ok) IN
           /\ cfSuccess' = r.success
           /\ cfError' = r.error
           /\ cfTimers' = cfTimers + r.timers
        /\ isCreating' = FALSE
        /\ customNet' = RemoveAt(customNet, i)
        /\ cfLog' = Append(cfLog, IF customNet[i].ok THEN "created" ELSE "failed")
        /\ UNCHANGED <<figureName, cfTopic, backendVars, arenaVars, setupVars,
                       streamVars>>

\* the 1500 ms timer: onFigureCreated, i.e. App.handleCustomFigureCreated up
\* to its await of getFigures
onFigureCreated ==
    /\ cfTimers > 0
    /\ cfTimers' = cfTimers - 1
    /\ customNet' = Append(customNet,
          [kind |-> "refresh", stage |-> "request", topic |-> <<>>,
           ok |-> FALSE, listing |-> {}])
    /\ cfLog' = Append(cfLog, "onFigureCreated")
    /\ UNCHANGED <<figureName, cfTopic, isCreating, cfError, cfSuccess,
                   backendVars, arenaVars, setupVars, streamVars>>

\* The backend serves getFigures (or the request fails).
BackendListFigures ==
    \E i \in 1..Len(customNet), ok \in BOOLEAN :
        /\ customNet[i].kind = "refresh" /\ customNet[i].stage = "request"
        /\ customNet' = [customNet EXCEPT ![i].stage = "response",
                                          ![i].ok = ok,
                                          ![i].listing = IF ok THEN Personas ELSE {}]
        /\ UNCHANGED <<figureName, cfTopic, isCreating, cfError, cfSuccess,
                       cfTimers, cfLog, backendVars, arenaVars, setupVars,
                       streamVars>>

\* App.handleCustomFigureCreated after its await
FiguresRefreshed ==
    \E i \in 1..Len(customNet) :
        /\ customNet[i].kind = "refresh" /\ customNet[i].stage = "response"
        /\ figures' = IF customNet[i].ok THEN customNet[i].listing ELSE figures
        /\ currentView' = "selection"
        /\ customNet' = RemoveAt(customNet, i)
        /\ UNCHANGED <<debateConfig, creatingDebate, appError, topic,
                       selectedFigures, setupMaxTurns, debateMode,
                       setupVariant, createNet, submitted, figureName,
                       cfTopic, isCreating, cfError, cfSuccess, cfTimers,
                       cfLog, backendVars, arenaVars, streamVars>>

\* App.handleCancelCustomFigure (Cancel is disabled while isCreating)
handleCancelCustomFigure ==
    /\ currentView = "create-custom" /\ ~isCreating
    /\ currentView' = "selection"
    /\ UNCHANGED <<debateConfig, creatingDebate, appError, figures, topic,
                   selectedFigures, setupMaxTurns, debateMode, setupVariant,
                   createNet, submitted, customVars, backendVars, arenaVars,
                   streamVars>>

InitCustom ==
    /\ sessions = <<>>
    /\ nextId = 1
    /\ customPersonas = {}
    /\ lastCall = NoCall
    /\ evals = <<>>
    /\ ArenaIdle
    /\ StreamIdle
    /\ CustomIdle
    /\ SetupIdle

NextCustom ==
    \/ handleCreateCustomFigure
    \/ setFigureName
    \/ setCfTopic
    \/ cfHandleSubmit
    \/ BackendCreateCustom
    \/ CreateCustomSettled
    \/ onFigureCreated
    \/ BackendListFigures
    \/ FiguresRefreshed
    \/ handleCancelCustomFigure

SpecCustom == InitCustom /\ [][NextCustom]_vars

-----------------------------------------------------------------------------
(* ApiService: the live-update clients (SpecStream, SpecTransports) *)

\* the callbacks a client has invoked
OnMessage(m) == [callback |-> "onMessage", message |-> <<m>>, text |-> <<>>]
OnComplete   == [callback |-> "onComplete", message |-> <<>>, text |-> <<>>]
OnError(t)   == [callback |-> "onError", message |-> <<>>, text |-> <<t>>]

Invoke(c, cb) == [c EXCEPT !.callbacks = Append(@, cb)]
Close(c)      == [c EXCEPT !.state = "closed"]

\* the DebateMessage built from the fields of a debate_message frame
toDebateMessage(d) ==
    [speaker_id |-> d.speaker_id, speaker_name |-> d.speaker_name,
     role |-> d.role, content |-> d.content, turn_number |-> d.turn_number]

\* data.message || 'Unknown error occurred'
ErrorText(e) ==
    IF e.text # <<>> /\ e.text[1] # "" THEN e.text[1]
    ELSE "Unknown error occurred"

\* eventSource.onmessage of streamDebate
sseOnMessage(c, e) ==
    IF ~e.parses
    THEN Invoke(c, OnError("Failed to parse message from server"))
    ELSE IF e.type = "complete" THEN Close(Invoke(c, OnComplete))
    ELSE IF e.type = "error" THEN Close(Invoke(c, OnError(ErrorText(e))))
    ELSE IF e.type = "debate_message"
    THEN Invoke(c, OnMessage(toDebateMessage(e.message[1])))
    ELSE c

\* ws.onmessage that keeps the socket open after an error frame
wsOnMessage_NoClose(c, e) ==
    IF ~e.parses
    THEN Invoke(c, OnError("Failed to parse message from server"))
    ELSE IF e.type = "complete" THEN Close(Invoke(c, OnComplete))
    ELSE IF e.type = "error" THEN Invoke(c, OnError(ErrorText(e)))
    ELSE IF e.type = "debate_message"
    THEN Invoke(c, OnMessage(toDebateMessage(e.message[1])))
    ELSE c

\* ws.onmessage of connectDebateWebSocket
wsOnMessage(c, e) ==
    IF ~e.parses
    THEN Invoke(c, OnError("Failed to parse message from server"))
    ELSE IF e.type = "complete" THEN Close(Invoke(c, OnComplete))
    ELSE IF e.type = "error" THEN Close(Invoke(c, OnError(ErrorText(e))))
    ELSE IF e.type = "debate_message"
    THEN Invoke(c, OnMessage(toDebateMessage(e.message[1])))
    ELSE IF e.type = "status" THEN c
    ELSE c

\* a delivery that hands the client the frame it handled last once more
NextFrame_Again(c) == IF c.next = 0 THEN 1 ELSE c.next

\* the frame a connection delivers next: each frame once, in order
NextFrame(c) == c.next + 1

\* streamDebate: new EventSource(.../start) and the request it sends
streamDebate ==
    /\ sse.state = "idle"
    /\ ArenaSid \in DOMAIN sessions
    /\ sse' = [ClientIdle EXCEPT !.state = "open"]
    /\ StartRequest(ArenaSid)
    /\ UNCHANGED <<nextId, customPersonas, evals, arenaVars, setupVars, customVars, ws>>

\* eventSource.onmessage
SseOnMessage ==
    /\ sse.state = "open"
    /\ NextFrame(sse) <= Len(EventsOf(ArenaSid))
    /\ sse' = sseOnMessage([sse EXCEPT !.next = NextFrame(sse)],
                           EventsOf(ArenaSid)[NextFrame(sse)])
    /\ UNCHANGED <<backendVars, arenaVars, setupVars, customVars, channel, ws>>

\* eventSource.onerror: the connection dropped
SseOnError ==
    /\ sse.state = "open"
    /\ sse' = Close(Invoke(sse, OnError("Connection error occurred")))
    /\ UNCHANGED <<backendVars, arenaVars, setupVars, customVars, channel, ws>>

\* the cleanup function streamDebate returns
SseCleanup ==
    /\ sse.state = "open"
    /\ sse' = Close(sse)
    /\ UNCHANGED <<backendVars, arenaVars, setupVars, customVars, channel, ws>>

\* connectDebateWebSocket: new WebSocket(.../ws/debates/{id})
connectDebateWebSocket ==
    /\ ws.state = "idle"
    /\ ws' = [ClientIdle EXCEPT !.state = "open"]
    /\ UNCHANGED <<backendVars, arenaVars, setupVars, customVars, channel, sse>>

\* ws.onmessage
WsOnMessage ==
    /\ ws.state = "open"
    /\ NextFrame(ws) <= Len(EventsOf(ArenaSid))
    /\ ws' = wsOnMessage([ws EXCEPT !.next = NextFrame(ws)],
                         EventsOf(ArenaSid)[NextFrame(ws)])
    /\ UNCHANGED <<backendVars, arenaVars, setupVars, customVars, channel, sse>>

\* ws.onerror followed by ws.onclose: the connection dropped
WsOnError ==
    /\ ws.state = "open"
    /\ ws' = Close(Invoke(ws, OnError("WebSocket connection error")))
    /\ UNCHANGED <<backendVars, arenaVars, setupVars, customVars, channel, sse>>

\* ws.close() called on the socket connectDebateWebSocket returned
WsClose ==
    /\ ws.state = "open"
    /\ ws' = Close(ws)
    /\ UNCHANGED <<backendVars, arenaVars, setupVars, customVars, channel, sse>>

\* a session just created, before any client connected
StreamConfigs ==
    { [mode |-> USER_VS_FIGURE, participants |-> <<"lincoln">>],
      [mode |-> FIGURE_VS_FIGURE, participants |-> <<"lincoln", "tesla">>] }

InitStream ==
    /\ \E cfg \in StreamConfigs, mt \in 1..MaxStreamTurns :
          sessions = (ArenaSid :> NewSession(<<A>>, cfg.participants, mt, cfg.mode))
    /\ nextId = ArenaSid + 1
    /\ customPersonas = {}
    /\ lastCall = NoCall
    /\ evals = <<>>
    /\ ArenaIdle
    /\ StreamIdle
    /\ CustomIdle
    /\ SetupIdle

NextStream ==
    \/ streamDebate
    \/ StreamStep
    \/ SseOnMessage
    \/ SseOnError
    \/ SseCleanup
    \/ connectDebateWebSocket
    \/ WsOnMessage
    \/ WsOnError
    \/ WsClose

\* every agent call of the streaming loop eventually returns or fails
SpecStream == InitStream /\ [][NextStream]_vars /\ WF_vars(StreamStep)

\* ---- the two clients fed the same arbitrary frames ----
TransportMessage == Message("lincoln", "participant", 1)

TransportEvents ==
    { MessageEvent(TransportMessage),
      StreamEvent("status", <<>>, <<"connected">>),
      StreamEvent("error", <<>>, <<"agent error">>),
      StreamEvent("error", <<>>, <<>>),
      StreamEvent("complete", <<>>, <<>>),
      StreamEvent("ping", <<>>, <<>>),
      [parses |-> FALSE, type |-> "", message |-> <<>>, text |-> <<>>] }

\* the server pushes a frame to both connections
ServerEmits ==
    \E e \in TransportEvents :
        /\ Len(EventsOf(ArenaSid)) < MaxEvents
        /\ channel' = Emit(ArenaSid, <<e>>)
        /\ UNCHANGED <<backendVars, arenaVars, setupVars, customVars, sse, ws>>

InitTransports ==
    /\ sessions = (ArenaSid :> NewSession(<<A>>, <<"lincoln", "tesla">>, 1,
                                          FIGURE_VS_FIGURE))
    /\ nextId = ArenaSid + 1
    /\ customPersonas = {}
    /\ lastCall = NoCall
    /\ evals = <<>>
    /\ ArenaIdle
    /\ SetupIdle
    /\ CustomIdle
    /\ channel = <<>>
    /\ sse = [ClientIdle EXCEPT !.state = "open"]
    /\ ws = [ClientIdle EXCEPT !.state = "open"]

NextTransports ==
    \/ ServerEmits
    \/ SseOnMessage
    \/ WsOnMessage

SpecTransports == InitTransports /\ [][NextTransports]_vars

-----------------------------------------------------------------------------
(* Properties *)

IsPrefix(a, b) == Len(a) <= Len(b) /\ SubSeq(b, 1, Len(a)) = a

Rank(st) == CASE st = "waiting" -> 0 [] st = "active" -> 1 [] st = "completed" -> 2

AdvanceOps == {"advance_turn_user", "advance_turn_auto"}

\* request i of the arena is served in this step
Served(i) ==
    /\ i \in 1..Len(net) /\ Len(net') = Len(net)
    /\ net[i].stage = "request" /\ net'[i].stage = "response"

\* the session the arena is mounted on
arenaSession == sessions[ArenaSid]

C1_Step ==
    /\ \A sid \in DOMAIN sessions \cap DOMAIN sessions' :
          /\ Rank(sessions'[sid].status) >= Rank(sessions[sid].status)
          /\ sessions[sid].status = "completed" =>
                /\ sessions'[sid].status = "completed"
                /\ sessions'[sid].messages = sessions[sid].messages
                /\ sessions'[sid].current_turn = sessions[sid].current_turn
    /\ (lastCall' # lastCall /\ lastCall'.op \in AdvanceOps
            /\ lastCall'.preStatus = "completed") =>
          lastCall'.outcome = "SessionCompleted" /\ lastCall'.appended = 0

\* C1: a session's status only moves forward along waiting, active,
\* completed; no operation moves it backwards or out of completed, and a turn
\* advance on a completed session fails with SessionCompleted and appends no
\* message.
C1_StatusMonotone == [][C1_Step]_vars

\* a turn advance was just refused on a completed session
C1_Witness ==
    /\ lastCall.op \in AdvanceOps
    /\ lastCall.preStatus = "completed"
    /\ lastCall.outcome = "SessionCompleted"
    /\ lastCall.sid \in DOMAIN sessions
    /\ sessions[lastCall.sid].status = "completed"

C2_Inv ==
    mode = USER_VS_FIGURE =>
        /\ arenaSession.current_turn <= arenaSession.max_turns
        /\ arenaSession.status = "completed"
              <=> arenaSession.current_turn = arenaSession.max_turns
        /\ arenaSession.status = "waiting" <=> arenaSession.current_turn = 0
        /\ \A i \in 1..Len(net) :
              (net[i].stage = "response" /\ net[i].ok) =>
                  /\ net[i].current_turn \in 1..arenaSession.max_turns
                  /\ net[i].max_turns = arenaSession.max_turns

C2_Step ==
    mode = USER_VS_FIGURE =>
        \A i \in 1..Len(net) : Served(i) =>
            IF arenaSession.status = "completed"
            THEN /\ net'[i].outcome = "SessionCompleted"
                 /\ sessions' = sessions
            ELSE IF net'[i].ok
            THEN sessions'[ArenaSid].current_turn = arenaSession.current_turn + 1
            ELSE sessions' = sessions

\* C2: in user-vs-persona mode with max_turns = M every successful
\* advance_turn_user increments the turn counter by exactly one and the
\* status is completed exactly when the counter reaches M; with M = 2 the
\* first send leaves turn 1 / active, the second turn 2 / completed and the
\* third fails with SessionCompleted.
C2_UserTurnCounter == []C2_Inv /\ [][C2_Step]_vars

\* M = 2, two exchanges made, and a third send refused with SessionCompleted
C2_Witness ==
    /\ mode = USER_VS_FIGURE
    /\ arenaSession.max_turns = 2
    /\ arenaSession.current_turn = 2
    /\ arenaSession.status = "completed"
    /\ \E i \in 1..Len(net) :
          net[i].stage = "response" /\ net[i].outcome = "SessionCompleted"

MessagesPerAdvance == IF mode = USER_VS_FIGURE THEN 2 ELSE 1

\* responses of successful advances the arena has not processed yet
OkInFlight ==
    Cardinality({i \in 1..Len(net) : net[i].stage = "response" /\ net[i].ok})

C4_TurnNumbers ==
    /\ \A i \in 1..Len(arenaSession.messages) :
          arenaSession.messages[i].turn_number = i
    /\ \A i \in 1..Len(messages) : messages[i].turn_number = i

C5_Step ==
    /\ IsPrefix(messages, messages')
    /\ \A sid \in DOMAIN sessions \cap DOMAIN sessions' :
          IsPrefix(sessions[sid].messages, sessions'[sid].messages)

InvalidCreate(t, pids, m, known) ==
    \/ t = <<>>
    \/ Len(pids) # (IF m = USER_VS_FIGURE THEN 1 ELSE 2)
    \/ \E i \in 1..Len(pids) : pids[i] \notin known

C6_Inv ==
    /\ \A i \in 1..Len(createNet) :
          createNet[i].stage = "request" =>
              /\ Trim(createNet[i].topic) # <<>>
              /\ Len(createNet[i].participants) =
                    (IF createNet[i].mode = USER_VS_FIGURE THEN 1 ELSE 2)
    /\ \A sid \in DOMAIN sessions :
          /\ sessions[sid].topic # <<>>
          /\ Len(sessions[sid].participants) =
                (IF sessions[sid].mode = USER_VS_FIGURE THEN 1 ELSE 2)

C6_Step ==
    /\ \A sid \in DOMAIN sessions' \ DOMAIN sessions :
          ~InvalidCreate(sessions'[sid].topic, sessions'[sid].participants,
                         sessions'[sid].mode, Personas)
    /\ \A i \in 1..Len(createNet) :
          ( /\ Len(createNet') = Len(createNet)
            /\ createNet[i].stage = "request"
            /\ createNet'[i].stage = "response" ) =>
              IF InvalidCreate(createNet[i].topic, createNet[i].participants,
                               createNet[i].mode, Personas)
              THEN /\ createNet'[i].outcome = "ValidationError"
                   /\ sessions' = sessions
              ELSE /\ createNet'[i].ok
                   /\ DOMAIN sessions' # DOMAIN sessions
    /\ (lastCall' # lastCall /\ lastCall'.op = "create_session"
            /\ lastCall'.outcome = "ValidationError") => sessions' = sessions

C7_FigureTurnLimit ==
    /\ arenaSession.current_turn
          <= arenaSession.max_turns * Len(arenaSession.participants)
    /\ mode = FIGURE_VS_FIGURE =>
          /\ arenaSession.status = "completed"
                <=> arenaSession.current_turn = 2 * arenaSession.max_turns
          /\ \A i \in 1..Len(net) :
                net[i].stage = "response" => net[i].outcome # "SessionCompleted"
          /\ net = <<>> =>
                (NextTurnDisabled
                    <=> arenaSession.current_turn >= 2 * arenaSession.max_turns)

\* a persona-vs-persona debate ran to its end
C7_Witness ==
    /\ mode = FIGURE_VS_FIGURE
    /\ arenaSession.status = "completed"
    /\ arenaSession.current_turn = 2 * arenaSession.max_turns
    /\ net = <<>>
    /\ NextTurnDisabled
    /\ Len(messages) = 2 * arenaSession.max_turns

\* C8: in user-vs-persona mode the arena lets the user send exactly as many
\* turns as the max_turns chosen in the setup: it accepts a send while fewer
\* exchanges are done and refuses once max_turns are done.
C8_ArenaTurnLimit ==
    mode = USER_VS_FIGURE =>
        (hasReachedLimit <=> arenaAdvances >= arenaSession.max_turns)

\* C9: the arena never has two turn-advance requests in flight at once.
C9_OneInFlight == Len(net) <= 1

RECURSIVE TotalUpTo(_, _, _)
\* the sum of one side's totals over the first n evaluations
TotalUpTo(evs, n, side) ==
    IF n = 0 THEN 0
    ELSE TotalUpTo(evs, n - 1, side)
         + (IF side = "user" THEN evs[n].user_total ELSE evs[n].ai_total)

\* the cumulative scores cs aggregate the first evaluations of evs
Aggregates(cs, evs) ==
    /\ cs.exchanges_evaluated <= Len(evs)
    /\ cs.user_cumulative_score = TotalUpTo(evs, cs.exchanges_evaluated, "user")
    /\ cs.ai_cumulative_score = TotalUpTo(evs, cs.exchanges_evaluated, "ai")
    /\ cs.overall_winner = "user"
          <=> cs.user_cumulative_score > cs.ai_cumulative_score
    /\ cs.overall_winner = "ai"
          <=> cs.user_cumulative_score < cs.ai_cumulative_score
    /\ cs.overall_winner = "tie"
          <=> cs.user_cumulative_score = cs.ai_cumulative_score

C11_Inv ==
    /\ \A i \in 1..Len(evalNet) :
          evalNet[i].stage = "scored" =>
              Aggregates(evalNet[i].cumulative, EvalsOf(evalNet[i].sid))
    /\ cumulativeScores # <<>> =>
          /\ Aggregates(cumulativeScores[1], EvalsOf(ArenaSid))
          /\ ScoreboardBanner(cumulativeScores) = "You are leading!"
                <=> ( /\ cumulativeScores[1].exchanges_evaluated > 0
                      /\ cumulativeScores[1].user_cumulative_score
                            > cumulativeScores[1].ai_cumulative_score )
          /\ ScoreboardBanner(cumulativeScores) = "figure is leading!"
                <=> ( /\ cumulativeScores[1].exchanges_evaluated > 0
                      /\ cumulativeScores[1].user_cumulative_score
                            < cumulativeScores[1].ai_cumulative_score )
          /\ ScoreboardBanner(cumulativeScores) = "Perfect tie!"
                => ScoreboardMargin(cumulativeScores) = "Completely even"

C11_Step ==
    \A i \in 1..Len(evalNet) :
        ( /\ Len(evalNet') = Len(evalNet)
          /\ evalNet[i].stage = "scores"
          /\ evalNet'[i].stage = "scored" ) =>
            evalNet'[i].cumulative.exchanges_evaluated
                = Len(EvalsOf(evalNet[i].sid))

\* C11: the cumulative scores of a session are the per-side sums of the
\* totals of all evaluations recorded for it, and overall_winner is user iff
\* the user total is strictly greater than the ai total, ai iff strictly
\* less, and tie otherwise; the Scoreboard names the leader accordingly.
C11_CumulativeScores == []C11_Inv /\ [][C11_Step]_vars

\* the Scoreboard shows a tie after two evaluations
C11_Witness ==
    /\ cumulativeScores # <<>>
    /\ cumulativeScores[1].exchanges_evaluated = 2
    /\ cumulativeScores[1].overall_winner = "tie"
    /\ cumulativeScores[1].user_cumulative_score = 9

\* an evaluateExchange call of the arena is pending or has failed
EvaluationOutstanding ==
    \/ evalNet # <<>>
    \/ Len(evalLog) > Len(EvalsOf(ArenaSid))

C12_Inv ==
    /\ ( /\ EvaluationOutstanding
         /\ mode = USER_VS_FIGURE
         /\ ~isSendingMessage /\ ~hasReachedLimit
         /\ Trim(userInput) # <<>>
         /\ Len(net) < MaxInFlight ) => ENABLED handleSendMessage
    /\ ( /\ EvaluationOutstanding
         /\ mode = FIGURE_VS_FIGURE
         /\ ~isSendingMessage /\ ~isGeneratingTurn
         /\ currentTurn < maxTurns * 2
         /\ Len(net) < MaxInFlight ) => ENABLED generateNextTurn
    /\ ( /\ EvaluationOutstanding
         /\ \E i \in 1..Len(net) : net[i].stage = "request" )
            => ENABLED BackendServe

C12_Step ==
    /\ \A i \in 1..Len(evalNet) :
          ( /\ evalNet[i].stage = "evaluate"
            /\ Len(evalNet') = Len(evalNet)
            /\ evalNet'[i].stage = "evaluated" ) =>
              /\ sessions' = sessions
              /\ turnVars' = turnVars
    /\ ( /\ Len(evalNet') < Len(evalNet)
         /\ \E i \in 1..Len(evalNet) :
               evalNet[i].stage = "evaluated" /\ ~evalNet[i].ok ) =>
           /\ sessions' = sessions
           /\ turnVars' = turnVars
           /\ isEvaluating' = FALSE

\* C12: an evaluation failure never blocks or rolls back turn progression:
\* when evaluate_exchange fails or is still pending, the session and the
\* arena's message list and turn count are as the turn advance left them,
\* Send and Next Turn are still accepted, and when the failure reaches the
\* arena isEvaluating returns to false.
C12_EvaluationFailure == []C12_Inv /\ [][C12_Step]_vars

\* every evaluation failed and the debate still ran to its last exchange
C12_Witness ==
    /\ mode = USER_VS_FIGURE
    /\ Len(messages) = 2 * MAX_USER_TURNS
    /\ sessions[ArenaSid].status = "completed"
    /\ evalNet = <<>> /\ timers = <<>>
    /\ Len(evalLog) = MAX_USER_TURNS - 1
    /\ EvalsOf(ArenaSid) = <<>>
    /\ ~isEvaluating

\* the arena has nothing pending: no request in flight and no timer set
ArenaQuiescent == net = <<>> /\ timers = <<>> /\ evalNet = <<>>

\* C13: after every successful exchange the arena requests the judge's
\* evaluation of that same exchange: the k-th evaluateExchange call carries
\* the user message and the AI response of the k-th exchange, and once
\* nothing is pending there has been exactly one call per exchange.
\* The code does not satisfy this: the evaluateLastExchange that the timer
\* runs belongs to the render in which Send was clicked, whose messages do
\* not yet hold the exchange just appended.
C13_EvaluatesSameExchange ==
    mode = USER_VS_FIGURE =>
        /\ \A k \in 1..Len(evalLog) :
              /\ 2 * k <= Len(messages)
              /\ evalLog[k].user_text = messages[2 * k - 1].content
              /\ evalLog[k].ai_text = messages[2 * k].content
        /\ ArenaQuiescent => 2 * Len(evalLog) = Len(messages)

\* C14: in figure-vs-figure mode the judge evaluates each exchange, where
\* exchange k is message 2k-1 (participants[0]) and message 2k
\* (participants[1]): the k-th evaluation requested has message 2k-1 as its
\* first side and message 2k as its second side, and once nothing is
\* pending every completed exchange has had exactly one evaluation.
\* The code does not satisfy this: evaluateFigureExchange reads the
\* messages of the render in which Next Turn was clicked.
C14_EvaluatesEachExchange ==
    mode = FIGURE_VS_FIGURE =>
        /\ \A k \in 1..Len(evalLog) :
              /\ 2 * k <= Len(messages)
              /\ messages[2 * k - 1].speaker_id = participants[1]
              /\ messages[2 * k].speaker_id = participants[2]
              /\ evalLog[k].user_text = messages[2 * k - 1].content
              /\ evalLog[k].ai_text = messages[2 * k].content
        /\ ArenaQuiescent => Len(evalLog) = Len(messages) \div 2

\* the session the live-update clients are connected to
streamSession == sessions[ArenaSid]

RECURSIVE MessagesIn(_)
\* the Messages the debate_message frames of a sequence of events carry
MessagesIn(es) ==
    IF es = <<>> THEN <<>>
    ELSE (IF Head(es).parses /\ Head(es).type = "debate_message"
          THEN Head(es).message ELSE <<>>) \o MessagesIn(Tail(es))

\* the positions of an event sequence that hold a terminal event
TerminalAt(es) == {k \in 1..Len(es) : IsTerminal(es[k])}

\* the client has handled the error frame of the stream: onError was its
\* last callback and the connection is closed
HandledError(c) ==
    /\ c.state = "closed"
    /\ c.callbacks # <<>>
    /\ c.callbacks[Len(c.callbacks)] = OnError("agent error")

C15_Inv ==
    LET es == EventsOf(ArenaSid) IN
    /\ streamSession.stream = "error" =>
          /\ es # <<>> /\ es[Len(es)] = ErrorEvent
          /\ TerminalAt(es) = {Len(es)}
          /\ MessagesIn(es) = streamSession.messages
    /\ \A c \in {sse, ws} :
          (c.next > 0 /\ es[c.next] = ErrorEvent) => HandledError(c)

C15_Step ==
    /\ ( /\ streamSession.stream = "running"
         /\ streamSession'.stream = "error" ) =>
           /\ streamSession'.messages = streamSession.messages
           /\ streamSession'.current_turn = streamSession.current_turn
           /\ EventsOf(ArenaSid)' = Append(EventsOf(ArenaSid), ErrorEvent)
    /\ streamSession.stream = "error" =>
           /\ streamSession' = streamSession
           /\ EventsOf(ArenaSid)' = EventsOf(ArenaSid)

\* C15: if the agent call fails at any step of start_streaming, an error
\* event is emitted, the stream halts (no retry, no further message event),
\* every message produced before the failure stays in the session history,
\* and a client that receives the error event calls onError and closes.
C15_StreamFailure == []C15_Inv /\ [][C15_Step]_vars

\* the agent failed after two messages and the SSE client was told
C15_Witness ==
    /\ streamSession.stream = "error"
    /\ Len(streamSession.messages) >= 2
    /\ sse.next = Len(EventsOf(ArenaSid))
    /\ HandledError(sse)
    /\ Len(sse.callbacks) = Len(streamSession.messages) + 1

\* the stream of the session has ended
StreamEnded == streamSession.stream \in {"done", "error"}

C16_Inv ==
    LET es == EventsOf(ArenaSid) IN
    /\ Cardinality(TerminalAt(es)) <= 1
    /\ TerminalAt(es) \subseteq {Len(es)}
    /\ StreamEnded <=> TerminalAt(es) # {}
    /\ streamSession.stream = "done" => es[Len(es)] = CompleteEvent
    /\ streamSession.stream = "error" => es[Len(es)] = ErrorEvent
    /\ ( /\ streamSession.stream = "done"
         /\ streamSession.mode = FIGURE_VS_FIGURE ) =>
           /\ streamSession.status = "completed"
           /\ streamSession.current_turn = TurnLimit(streamSession)
    /\ MessagesIn(es) = streamSession.messages

\* C16: start_streaming always terminates: when every agent call returns or
\* fails, a running stream eventually ends; it ends with exactly one
\* terminal event (the completion signal once an auto-run session is
\* completed at its turn limit, or an error event), that event is the last
\* one of the channel and every message of the history was pushed before it.
C16_StreamTerminates ==
    /\ []C16_Inv
    /\ (streamSession.stream = "running") ~> StreamEnded

\* the stream of a figure-vs-figure session ran to its completion signal
C16_Witness ==
    /\ streamSession.mode = FIGURE_VS_FIGURE
    /\ streamSession.max_turns = MaxStreamTurns
    /\ streamSession.stream = "done"
    /\ Len(EventsOf(ArenaSid)) = 1 + TurnLimit(streamSession) + 1

\* the connection of client c dropped: its last callback reports it
Dropped(c) ==
    /\ c.state = "closed"
    /\ c.callbacks # <<>>
    /\ c.callbacks[Len(c.callbacks)] \in
          {OnError("Connection error occurred"),
           OnError("WebSocket connection error")}

RECURSIVE Delivered(_)
\* the Messages a client handed to onMessage, in order
Delivered(cbs) ==
    IF cbs = <<>> THEN <<>>
    ELSE (IF Head(cbs).callback = "onMessage" THEN Head(cbs).message ELSE <<>>)
         \o Delivered(Tail(cbs))

\* client c was handed each message of the frames it handled exactly once,
\* in the order the server pushed them
AtMostOnce(c) ==
    LET es   == EventsOf(ArenaSid)
        sent == MessagesIn(SubSeq(es, 1, c.next))
        got  == Delivered(c.callbacks) IN
    /\ c.next <= Len(es)
    /\ Len(got) = Len(sent)
    /\ \A k \in 1..Len(got) : got[k] = toDebateMessage(sent[k])
    /\ \A j, k \in 1..Len(got) : j # k => got[j] # got[k]

C17_Inv ==
    /\ AtMostOnce(sse) /\ AtMostOnce(ws)
    /\ ( /\ Dropped(sse) \/ Dropped(ws)
         /\ streamSession.stream = "running" ) => ENABLED StreamStep

C17_Step ==
    \/ sse'.state = "closed" /\ sse.state = "open"
    \/ ws'.state = "closed" /\ ws.state = "open"
    \/ Dropped(sse) \/ Dropped(ws)
    => /\ IsPrefix(streamSession.messages, streamSession'.messages)
       /\ IsPrefix(EventsOf(ArenaSid), EventsOf(ArenaSid)')
       /\ streamSession'.current_turn >= streamSession.current_turn
       /\ Rank(streamSession'.status) >= Rank(streamSession.status)

C18_TransportsEquivalent ==
    sse.next = ws.next =>
        /\ sse.callbacks = ws.callbacks
        /\ sse.state = ws.state

\* both clients handled a message, a status frame and an error frame
C18_Witness ==
    /\ Len(EventsOf(ArenaSid)) >= 3
    /\ sse.next = ws.next /\ ws.next = Len(ws.callbacks) + 1
    /\ EventsOf(ArenaSid)[1].type = "debate_message"
    /\ EventsOf(ArenaSid)[2].type = "status"
    /\ EventsOf(ArenaSid)[3] = StreamEvent("error", <<>>, <<>>)
    /\ ws.callbacks = <<OnMessage(toDebateMessage(TransportMessage)),
                        OnError("Unknown error occurred")>>
    /\ ws.state = "closed"

\* the moderator's opening messages in a history: one per stream started
Openings(msgs) == {k \in 1..Len(msgs) : msgs[k].role = "moderator"}

C19_Inv ==
    \A sid \in DOMAIN sessions :
        /\ sessions[sid].opening <= 1
        /\ Cardinality(Openings(sessions[sid].messages)) = sessions[sid].opening
        /\ sessions[sid].stream # "none" => sessions[sid].opening = 1
        /\ Cardinality(Openings(MessagesIn(EventsOf(sid)))) <= 1

C19_Step ==
    /\ \A sid \in DOMAIN sessions \cap DOMAIN sessions' :
          \/ sessions'[sid].opening > sessions[sid].opening
          \/ sessions[sid].stream = "none" /\ sessions'[sid].stream # "none"
          => sessions[sid].status = "waiting"
    /\ ( /\ lastCall' # lastCall
         /\ lastCall'.op = "start_streaming"
         /\ lastCall'.outcome = "rejected" ) =>
           /\ lastCall'.preStatus \in {"active", "completed"}
           /\ sessions' = sessions
           /\ channel' = channel

SpeakerReadable(m) ==
    /\ m.speaker_id \in BuiltinFigures \cup CustomFigures \cup {"user", "moderator"}
    /\ m.speaker_name # ""
    /\ m.speaker_name = PersonaName(m.speaker_id)

\* a stored message whose speaker is no longer in the persona registry
Orphaned(m) == m.role = "participant" /\ m.speaker_id \notin Personas

C20_Inv ==
    \A sid \in DOMAIN sessions :
        \A k \in 1..Len(sessions[sid].messages) :
            SpeakerReadable(sessions[sid].messages[k])

C20_Step ==
    (customPersonas' # customPersonas /\ customPersonas' \subseteq customPersonas)
        => /\ sessions' = sessions
           /\ evals' = evals
           /\ channel' = channel

\* C20: deleting a persona that an existing session refers to leaves the
\* session and its message history unchanged, and every stored message
\* still carries its speaker's id and name, also when that speaker is no
\* longer in the registry.
C20_PersonaDeletion == []C20_Inv /\ [][C20_Step]_vars

\* the custom persona was deleted after it spoke in a session
C20_Witness ==
    /\ lastCall.op = "delete_persona"
    /\ customPersonas = {}
    /\ \E sid \in DOMAIN sessions :
          /\ \E i \in 1..Len(sessions[sid].participants) :
                sessions[sid].participants[i] \in CustomFigures
          /\ \E k \in 1..Len(sessions[sid].messages) :
                /\ Orphaned(sessions[sid].messages[k])
                /\ sessions[sid].messages[k].speaker_name = "Marie Curie"

\* how often x occurs in the log of the custom-figure form
CfCount(x) == Cardinality({k \in 1..Len(cfLog) : cfLog[k] = x})

C21_Inv ==
    /\ CfCount("onFigureCreated") + cfTimers = CfCount("created")
    /\ CfCount("created") = 0 =>
          /\ figures = BuiltinFigures
          /\ \A i \in 1..Len(customNet) : customNet[i].kind # "refresh"
    /\ ( /\ CfCount("created") = 0
         /\ \A i \in 1..Len(customNet) : ~customNet[i].ok ) =>
           customPersonas = {}

C21_Step ==
    /\ \A i \in 1..Len(customNet) :
          ( /\ Len(customNet') = Len(customNet)
            /\ customNet[i].kind = "create"
            /\ customNet[i].stage = "request"
            /\ customNet'[i].stage = "response"
            /\ ~Resolves(customNet[i].topic) ) =>
              /\ ~customNet'[i].ok
              /\ lastCall'.outcome = "PersonaValidationError"
              /\ customPersonas' = customPersonas
              /\ Personas' = Personas
    /\ Len(cfLog') > Len(cfLog) /\ cfLog'[Len(cfLog')] = "failed" =>
          /\ cfError' /\ ~cfSuccess' /\ ~isCreating'
          /\ figures' = figures
          /\ cfTimers' = cfTimers
          /\ currentView' = currentView

\* C21: create_custom with a topic that does not resolve fails with
\* PersonaValidationError and leaves the persona list as it was; in the
\* client the failure shows the error, schedules no onFigureCreated and
\* leaves the figure list alone: onFigureCreated runs once per successful
\* creation and never for a failed one.
C21_CreateCustomFailure == []C21_Inv /\ [][C21_Step]_vars

\* two creations failed: the error is shown and nothing else happened
C21_Witness ==
    /\ CfCount("failed") = 2
    /\ cfError /\ ~isCreating
    /\ currentView = "create-custom"
    /\ lastCall.outcome = "PersonaValidationError"
    /\ customNet = <<>> /\ cfTimers = 0
    /\ figures = BuiltinFigures

\* an evaluateExchange call for the last exchange of the message list has
\* been made
FinalExchangeEvaluated ==
    /\ Len(messages) >= 2
    /\ \E k \in 1..Len(evalLog) :
          /\ evalLog[k].user_text = messages[Len(messages) - 1].content
          /\ evalLog[k].ai_text = messages[Len(messages)].content

\* C22: in user-vs-figure mode the game-over dialog is shown only after the
\* evaluation of the final exchange has completed: when showGameOver is set,
\* the evaluation of the last exchange has been requested and no evaluation
\* is pending any more.
\* The code does not satisfy this: the dialog's timer is a fixed 2000 ms
\* that does not wait for the evaluation, and the evaluation the 1000 ms
\* timer starts is that of the exchange before the final one.
C22_GameOverAfterEvaluation ==
    (mode = USER_VS_FIGURE /\ showGameOver) =>
        /\ FinalExchangeEvaluated
        /\ evalNet = <<>>
        /\ ~isEvaluating

\* C23: in user-vs-figure mode userTurnCount is the number of exchanges
\* shown (messages.length = 2 * userTurnCount) and never exceeds
\* MAX_USER_TURNS, under every interleaving of text sends, voice recordings
\* and their responses.
\* The code does not satisfy this: both handlers compute the new count from
\* the userTurnCount of their own render, so two sends that overlap each
\* add an exchange and both set the count to the same value.
C23_TurnCountMatchesMessages ==
    mode = USER_VS_FIGURE =>
        /\ Len(messages) = 2 * userTurnCount
        /\ userTurnCount <= MAX_USER_TURNS

\* the step settles the failed turn-advance request at position i of net
FailureSettled(i) ==
    /\ net[i].stage = "response" /\ ~net[i].ok
    /\ net' = RemoveAt(net, i)

C24_Step ==
    \A i \in 1..Len(net) :
        FailureSettled(i) =>
            /\ messages' = messages
            /\ userTurnCount' = userTurnCount
            /\ currentTurn' = currentTurn
            /\ userInput' = userInput
            /\ timers' = timers
            /\ error' = TRUE
            /\ isSendingMessage' = FALSE
            /\ net[i].kind = "next" => isGeneratingTurn' = FALSE

\* with the error shown and no send in progress the user can send again
C24_Inv ==
    /\ ( /\ error /\ ~isSendingMessage
         /\ mode = USER_VS_FIGURE /\ ~isRecording
         /\ ~hasReachedLimit
         /\ Trim(userInput) # <<>>
         /\ Len(net) < MaxInFlight ) => ENABLED handleSendMessage
    /\ ( /\ error /\ ~isSendingMessage /\ ~isGeneratingTurn
         /\ mode = FIGURE_VS_FIGURE
         /\ currentTurn < maxTurns * 2
         /\ Len(net) < MaxInFlight ) => ENABLED generateNextTurn

\* C24: when a turn-advance request of the arena fails (text send, voice
\* send or next turn), the message list, userTurnCount, currentTurn and the
\* typed input are left unchanged, the error is set, and isSendingMessage
\* and isGeneratingTurn return to false, so that the user can try again.
C24_FailureFrame == []C24_Inv /\ [][C24_Step]_vars

\* the second text send failed: one exchange shown, the typed text kept
C24_Witness ==
    /\ mode = USER_VS_FIGURE
    /\ error /\ ~isSendingMessage /\ net = <<>>
    /\ Len(messages) = 2 /\ userTurnCount = 1
    /\ Trim(userInput) # <<>>
    /\ arenaSession.current_turn = 1
    /\ micPending = {} /\ recorder = <<>>

\* the positions of the callbacks of one kind in a client's callback list
CallbacksAt(c, kind) ==
    {k \in 1..Len(c.callbacks) : c.callbacks[k].callback = kind}

C25_Inv ==
    /\ ( /\ sse.next > 0
         /\ IsTerminal(EventsOf(ArenaSid)[sse.next]) ) => sse.state = "closed"
    /\ Cardinality(CallbacksAt(sse, "onComplete")) <= 1
    /\ \A j \in CallbacksAt(sse, "onError"), k \in CallbacksAt(sse, "onComplete") :
          k < j

C25_Step == sse.state = "closed" => sse' = sse

\* C25: once streamDebate has handled a complete event, an error event or a
\* transport error, the EventSource is closed and no further callback is
\* invoked for that stream; onComplete is invoked at most once and never
\* after onError.
\* The code does not satisfy the last part: a frame that is not JSON makes
\* the handler call onError without closing the EventSource, so the frames
\* that follow are still handled.
C25_NoCallbackAfterEnd == []C25_Inv /\ [][C25_Step]_vars

Elements(seq) == {seq[i] : i \in 1..Len(seq)}

C26_Inv ==
    /\ Cardinality(Elements(selectedFigures)) = Len(selectedFigures)
    /\ debateMode = USER_VS_FIGURE => Len(selectedFigures) <= 1
    /\ debateMode = FIGURE_VS_FIGURE => Len(selectedFigures) <= 2

C26_Step ==
    /\ ToggleFigure =>
          \E id \in figures :
              IF id \in Elements(selectedFigures)
              THEN /\ Elements(selectedFigures') = Elements(selectedFigures) \ {id}
                   /\ Len(selectedFigures') = Len(selectedFigures) - 1
              ELSE /\ selectedFigures' # <<>>
                   /\ selectedFigures'[Len(selectedFigures')] = id
                   /\ ( /\ debateMode = FIGURE_VS_FIGURE
                        /\ Len(selectedFigures) = 2 ) =>
                          selectedFigures' = <<selectedFigures[2], id>>
    /\ (currentView = "setup" /\ currentView' = "setup"
            /\ debateMode' # debateMode) => selectedFigures' = <<>>

CreateSettled(i) ==
    /\ createNet[i].stage = "response"
    /\ createNet' = RemoveAt(createNet, i)

C27_Inv ==
    /\ Len(createNet) <= 1
    /\ creatingDebate => Len(createNet) = 1
    /\ Cardinality(DOMAIN sessions) <= submitted
    /\ (currentView = "debate" /\ debateConfig # <<>>) =>
          /\ debateConfig[1].sessionId \in DOMAIN sessions
          /\ \A sid \in DOMAIN sessions : sid <= debateConfig[1].sessionId

C27_Step ==
    \A i \in 1..Len(createNet) :
        (CreateSettled(i) /\ currentView # "setup") => currentView' = currentView

\* C27: while a createDebate request is in flight no second one can be
\* issued, and its late response cannot change the view after the user has
\* moved on; each setup submission creates at most one session, and the
\* arena's sessionId is always the session of the last submission.
\* The code does not satisfy this: the setup form stays usable while the
\* request is in flight, and the continuation of handleStartDebate sets the
\* view whatever the view has become.
C27_SingleCreate == []C27_Inv /\ [][C27_Step]_vars

C28_Inv ==
    (currentView = "selection" /\ appError /\ ~creatingDebate) =>
        ENABLED handleSetupDebate

C28_Step ==
    \A i \in 1..Len(createNet) :
        (CreateSettled(i) /\ ~createNet[i].ok) =>
            /\ currentView' = "selection"
            /\ appError'
            /\ ~creatingDebate'
            /\ debateConfig' = <<>>

\* C28: after a failed createDebate the app is in the selection view with
\* the error shown, creatingDebate false and debateConfig null, and
\* 'Start New Debate' is still available.
\* The code does not satisfy the last part: the selection view renders its
\* buttons only while no error is shown.
C28_CreateFailure == []C28_Inv /\ [][C28_Step]_vars

C29_Inv ==
    showGameOver =>
        LET h == GameOverHeader(cumulativeScores, mode) IN
        /\ h.winner = "first" =>
              cumulativeScores # <<>> /\ cumulativeScores[1].overall_winner = "user"
        /\ h.winner = "second" =>
              cumulativeScores # <<>> /\ cumulativeScores[1].overall_winner = "ai"
        /\ h.title = "TIE!" =>
              cumulativeScores # <<>> /\ cumulativeScores[1].overall_winner = "tie"

\* C29: the game-over dialog names the first side as the winner only when
\* overall_winner is 'user', the second side only when it is 'ai', and shows
\* 'TIE!' only when cumulative scores exist and overall_winner is 'tie'.
\* The code does not satisfy the last part: the dialog's last branch also
\* renders when cumulativeScores is null.
C29_GameOverResult == []C29_Inv

====
